---- MODULE Spec2Model ----
(***************************************************************************)
(* getter: a read-only HTTP API over a directory of JSON files.            *)
(*                                                                         *)
(* Byte strings (file contents, file names, request paths, response        *)
(* bodies) are sequences of one-character strings.  JSON documents are     *)
(* decoded the way encoding/json decodes them into interface{} values:     *)
(*   [t |-> "null"]                       nil                              *)
(*   [t |-> "bool", b |-> BOOLEAN]        bool                             *)
(*   [t |-> "num", neg, mag]              float64 holding -mag or mag      *)
(*   [t |-> "str", s |-> chars]           string                           *)
(*   [t |-> "arr", a |-> <<values>>]      []interface{}                    *)
(*   [t |-> "obj", m |-> [keys -> value]] map[string]interface{}           *)
(* Inputs hold no backslash escapes, no control characters inside strings, *)
(* no fractions and no exponents, and numbers stay below 2^53, where       *)
(* float64 is exact.                                                       *)
(***************************************************************************)
EXTENDS Integers, Sequences, FiniteSets, TLC

(***************************************************************************)
(* Byte-string helpers (package strings, path/filepath).                   *)
(***************************************************************************)

\* The characters of the model in ASCII order; Code gives their order.
Ascii ==
    << "\t", "\n", "\r", " ", "\"", "%", "+", ",", "-", ".", "/",
       "0", "1", "2", "3", "4", "5", "6", "7", "8", "9",
       ":", "<", ">", "[", "]",
       "a", "b", "c", "d", "e", "f", "g", "h", "i", "j", "k", "l", "m",
       "n", "o", "p", "q", "r", "s", "t", "u", "v", "w", "x", "y", "z",
       "{", "}" >>

Code(c) == CHOOSE k \in 1..Len(Ascii) : Ascii[k] = c

\* Byte-wise string order, as sort.Strings orders map keys.
RECURSIVE StrLess(_, _)
StrLess(x, y) ==
    IF y = <<>> THEN FALSE
    ELSE IF x = <<>> THEN TRUE
    ELSE IF Head(x) = Head(y) THEN StrLess(Tail(x), Tail(y))
    ELSE Code(Head(x)) < Code(Head(y))

\* The elements of a finite set of strings in increasing order.
RECURSIVE SortedKeys(_)
SortedKeys(S) ==
    IF S = {} THEN <<>>
    ELSE LET least == CHOOSE x \in S : \A y \in S \ {x} : StrLess(x, y)
         IN  <<least>> \o SortedKeys(S \ {least})

DotJson == <<".", "j", "s", "o", "n">>

HasSuffix(s, suffix) ==
    /\ Len(s) >= Len(suffix)
    /\ SubSeq(s, Len(s) - Len(suffix) + 1, Len(s)) = suffix

(***************************************************************************)
(* encoding/json: scanning and decoding into interface{}.                  *)
(***************************************************************************)

Null == [t |-> "null"]
EmptyMap == [k \in {} |-> Null]

Fail == [ok |-> FALSE]
Ok(v, p) == [ok |-> TRUE, val |-> v, pos |-> p]

IsWS(c) == c \in {" ", "\t", "\r", "\n"}

RECURSIVE SkipWS(_, _)
SkipWS(b, i) == IF i <= Len(b) /\ IsWS(b[i]) THEN SkipWS(b, i + 1) ELSE i

Digits == <<"0", "1", "2", "3", "4", "5", "6", "7", "8", "9">>
IsDigit(c) == \E k \in 1..10 : Digits[k] = c
DigitVal(c) == (CHOOSE k \in 1..10 : Digits[k] = c) - 1

RECURSIVE DigitsEnd(_, _)
DigitsEnd(b, j) == IF j <= Len(b) /\ IsDigit(b[j]) THEN DigitsEnd(b, j + 1) ELSE j

RECURSIVE ToNat(_)
ToNat(ds) ==
    IF ds = <<>> THEN 0
    ELSE 10 * ToNat(SubSeq(ds, 1, Len(ds) - 1)) + DigitVal(ds[Len(ds)])

\* The index of the quote closing a string literal whose content starts at j,
\* or 0 when the literal is unterminated or holds a character the scanner
\* rejects (a control character; escapes are outside the inputs).
RECURSIVE StringEnd(_, _)
StringEnd(b, j) ==
    IF j > Len(b) THEN 0
    ELSE IF b[j] = "\"" THEN j
    ELSE IF b[j] \in {"\\", "\n", "\t", "\r"} THEN 0
    ELSE StringEnd(b, j + 1)

ParseString(b, i) ==
    LET j == StringEnd(b, i + 1)
    IN  IF j = 0 THEN Fail ELSE Ok(SubSeq(b, i + 1, j - 1), j + 1)

ParseNumber(b, i) ==
    LET neg == b[i] = "-"
        s   == IF neg THEN i + 1 ELSE i
    IN  IF s > Len(b) \/ ~IsDigit(b[s]) THEN Fail
        ELSE LET e == IF b[s] = "0" THEN s + 1 ELSE DigitsEnd(b, s)
             IN  Ok([t |-> "num", neg |-> neg, mag |-> ToNat(SubSeq(b, s, e - 1))], e)

ParseLiteral(b, i, word, v) ==
    IF i + Len(word) - 1 <= Len(b) /\ SubSeq(b, i, i + Len(word) - 1) = word
    THEN Ok(v, i + Len(word))
    ELSE Fail

RECURSIVE ParseValue(_, _)
RECURSIVE ParseElements(_, _, _)
RECURSIVE ParseMembers(_, _, _)

\* One JSON value starting at or after i (leading white space skipped).
ParseValue(b, i0) ==
    LET i == SkipWS(b, i0)
    IN  IF i > Len(b) THEN Fail
        ELSE IF b[i] = "{" THEN
            LET j == SkipWS(b, i + 1)
            IN  IF j <= Len(b) /\ b[j] = "}"
                THEN Ok([t |-> "obj", m |-> EmptyMap], j + 1)
                ELSE ParseMembers(b, j, EmptyMap)
        ELSE IF b[i] = "[" THEN
            LET j == SkipWS(b, i + 1)
            IN  IF j <= Len(b) /\ b[j] = "]"
                THEN Ok([t |-> "arr", a |-> <<>>], j + 1)
                ELSE ParseElements(b, j, <<>>)
        ELSE IF b[i] = "\"" THEN
            LET r == ParseString(b, i)
            IN  IF r.ok THEN Ok([t |-> "str", s |-> r.val], r.pos) ELSE Fail
        ELSE IF b[i] = "-" \/ IsDigit(b[i]) THEN ParseNumber(b, i)
        ELSE IF b[i] = "t" THEN
            ParseLiteral(b, i, <<"t", "r", "u", "e">>, [t |-> "bool", b |-> TRUE])
        ELSE IF b[i] = "f" THEN
            ParseLiteral(b, i, <<"f", "a", "l", "s", "e">>, [t |-> "bool", b |-> FALSE])
        ELSE IF b[i] = "n" THEN
            ParseLiteral(b, i, <<"n", "u", "l", "l">>, Null)
        ELSE Fail

\* The elements of an array from its next element at i, acc holding the
\* elements decoded so far.
ParseElements(b, i, acc) ==
    LET r == ParseValue(b, i)
    IN  IF ~r.ok THEN Fail
        ELSE LET k == SkipWS(b, r.pos)
             IN  IF k > Len(b) THEN Fail
                 ELSE IF b[k] = "," THEN ParseElements(b, k + 1, Append(acc, r.val))
                 ELSE IF b[k] = "]" THEN Ok([t |-> "arr", a |-> Append(acc, r.val)], k + 1)
                 ELSE Fail

\* The members of an object from its next key at i; a repeated key keeps its
\* last value, as a Go map does.
ParseMembers(b, i, acc) ==
    IF i > Len(b) \/ b[i] # "\"" THEN Fail
    ELSE LET key == ParseString(b, i)
         IN  IF ~key.ok THEN Fail
             ELSE LET c == SkipWS(b, key.pos)
                  IN  IF c > Len(b) \/ b[c] # ":" THEN Fail
                      ELSE LET r == ParseValue(b, c + 1)
                           IN  IF ~r.ok THEN Fail
                               ELSE LET k   == SkipWS(b, r.pos)
                                        acc2 == (key.val :> r.val) @@ acc
                                    IN  IF k > Len(b) THEN Fail
                                        ELSE IF b[k] = ","
                                        THEN ParseMembers(b, SkipWS(b, k + 1), acc2)
                                        ELSE IF b[k] = "}"
                                        THEN Ok([t |-> "obj", m |-> acc2], k + 1)
                                        ELSE Fail

\* json.Unmarshal(data, &v) with v interface{}: the whole input must be one
\* JSON value, surrounded by optional white space.
Unmarshal(b) ==
    LET r == ParseValue(b, 1)
    IN  IF r.ok /\ SkipWS(b, r.pos) = Len(b) + 1 THEN [ok |-> TRUE, val |-> r.val]
        ELSE Fail

(***************************************************************************)
(* fmt.Sprintf("%v", x) for a decoded value x.                             *)
(***************************************************************************)

RECURSIVE NatToStr(_)
NatToStr(n) ==
    IF n < 10 THEN <<Digits[n + 1]>>
    ELSE NatToStr(n \div 10) \o <<Digits[(n % 10) + 1]>>

RECURSIVE StripZeros(_)
StripZeros(ds) ==
    IF Len(ds) > 1 /\ ds[Len(ds)] = "0" THEN StripZeros(SubSeq(ds, 1, Len(ds) - 1))
    ELSE ds

\* strconv.FormatFloat(f, 'g', -1, 64), which %v uses for a float64, on a
\* float holding the integer mag: the shortest digits, in %e form when the
\* decimal exponent is 6 or more (eprec = 6 for the shortest precision), in
\* %f form below that.
FormatFloatG(neg, mag) ==
    LET sign == IF neg THEN <<"-">> ELSE <<>>
        ds   == NatToStr(mag)
        sig  == StripZeros(ds)
        exp  == Len(ds) - 1
        frac == IF Len(sig) > 1 THEN <<".">> \o Tail(sig) ELSE <<>>
        ex   == IF exp < 10 THEN <<"0">> \o NatToStr(exp) ELSE NatToStr(exp)
    IN  IF mag = 0 THEN sign \o <<"0">>
        ELSE IF exp >= 6 THEN sign \o <<sig[1]>> \o frac \o <<"e", "+">> \o ex
        ELSE sign \o ds

RECURSIVE SprintfV(_)
RECURSIVE SprintfList(_)
RECURSIVE SprintfMap(_, _)

\* fmt.Sprintf("%v", x): <nil>, true/false, %g, the string itself,
\* [a b c] for a slice and map[k:v k:v] (keys sorted) for a map.
SprintfV(x) ==
    IF x.t = "null" THEN <<"<", "n", "i", "l", ">">>
    ELSE IF x.t = "bool" THEN
        (IF x.b THEN <<"t", "r", "u", "e">> ELSE <<"f", "a", "l", "s", "e">>)
    ELSE IF x.t = "num" THEN FormatFloatG(x.neg, x.mag)
    ELSE IF x.t = "str" THEN x.s
    ELSE IF x.t = "arr" THEN <<"[">> \o SprintfList(x.a) \o <<"]">>
    ELSE <<"m", "a", "p", "[">> \o SprintfMap(x.m, SortedKeys(DOMAIN x.m)) \o <<"]">>

SprintfList(a) ==
    IF a = <<>> THEN <<>>
    ELSE IF Len(a) = 1 THEN SprintfV(a[1])
    ELSE SprintfV(a[1]) \o <<" ">> \o SprintfList(Tail(a))

SprintfMap(m, keys) ==
    IF keys = <<>> THEN <<>>
    ELSE LET one == keys[1] \o <<":">> \o SprintfV(m[keys[1]])
         IN  IF Len(keys) = 1 THEN one ELSE one \o <<" ">> \o SprintfMap(m, Tail(keys))

(***************************************************************************)
(* json.NewEncoder(w).Encode(v): compact, keys sorted, HTML-escaped, with  *)
(* a trailing newline.                                                     *)
(***************************************************************************)

RECURSIVE EncodeString(_)
EncodeString(s) ==
    IF s = <<>> THEN <<>>
    ELSE (IF Head(s) = "<" THEN <<"\\", "u", "0", "0", "3", "c">>
          ELSE IF Head(s) = ">" THEN <<"\\", "u", "0", "0", "3", "e">>
          ELSE <<Head(s)>>) \o EncodeString(Tail(s))

Quote(s) == <<"\"">> \o EncodeString(s) \o <<"\"">>

RECURSIVE EncodeValue(_)
RECURSIVE EncodeList(_)
RECURSIVE EncodeMap(_, _)

\* A float64 is written in %f form (no exponent below 1e21).
EncodeValue(x) ==
    IF x.t = "null" THEN <<"n", "u", "l", "l">>
    ELSE IF x.t = "bool" THEN
        (IF x.b THEN <<"t", "r", "u", "e">> ELSE <<"f", "a", "l", "s", "e">>)
    ELSE IF x.t = "num" THEN (IF x.neg THEN <<"-">> ELSE <<>>) \o NatToStr(x.mag)
    ELSE IF x.t = "str" THEN Quote(x.s)
    ELSE IF x.t = "arr" THEN <<"[">> \o EncodeList(x.a) \o <<"]">>
    ELSE <<"{">> \o EncodeMap(x.m, SortedKeys(DOMAIN x.m)) \o <<"}">>

EncodeList(a) ==
    IF a = <<>> THEN <<>>
    ELSE IF Len(a) = 1 THEN EncodeValue(a[1])
    ELSE EncodeValue(a[1]) \o <<",">> \o EncodeList(Tail(a))

EncodeMap(m, keys) ==
    IF keys = <<>> THEN <<>>
    ELSE LET one == Quote(keys[1]) \o <<":">> \o EncodeValue(m[keys[1]])
         IN  IF Len(keys) = 1 THEN one ELSE one \o <<",">> \o EncodeMap(m, Tail(keys))

Encode(x) == EncodeValue(x) \o <<"\n">>

(***************************************************************************)
(* Paths and the file system (os, path/filepath).                          *)
(***************************************************************************)

\* The components of s between the occurrences of sep.
RECURSIVE SplitAcc(_, _, _, _)
SplitAcc(s, sep, cur, acc) ==
    IF s = <<>> THEN Append(acc, cur)
    ELSE IF Head(s) = sep THEN SplitAcc(Tail(s), sep, <<>>, Append(acc, cur))
    ELSE SplitAcc(Tail(s), sep, Append(cur, Head(s)), acc)

Split(s, sep) == SplitAcc(s, sep, <<>>, <<>>)

\* Clean on the components of a rooted path: empty and "." components are
\* dropped, ".." drops the component before it (and nothing at the root).
RECURSIVE CleanComps(_, _)
CleanComps(cs, acc) ==
    IF cs = <<>> THEN acc
    ELSE IF Head(cs) = <<>> \/ Head(cs) = <<".">> THEN CleanComps(Tail(cs), acc)
    ELSE IF Head(cs) = <<".", ".">> THEN
        CleanComps(Tail(cs), IF acc = <<>> THEN acc ELSE SubSeq(acc, 1, Len(acc) - 1))
    ELSE CleanComps(Tail(cs), Append(acc, Head(cs)))

RECURSIVE JoinComps(_)
JoinComps(cs) ==
    IF cs = <<>> THEN <<>> ELSE <<"/">> \o Head(cs) \o JoinComps(Tail(cs))

\* filepath.Clean / path.Clean of a rooted path.
Clean(p) ==
    LET cs == CleanComps(Split(p, "/"), <<>>)
    IN  IF cs = <<>> THEN <<"/">> ELSE JoinComps(cs)

\* filepath.Join(dir, name) for a rooted dir and a non-empty name.
FilepathJoin(dir, name) == Clean(dir \o <<"/">> \o name)

\* The path of the directory holding p.
Parent(p) ==
    LET cs == CleanComps(Split(p, "/"), <<>>)
    IN  IF Len(cs) <= 1 THEN <<"/">> ELSE JoinComps(SubSeq(cs, 1, Len(cs) - 1))

\* Base name of p.
Base(p) ==
    LET cs == CleanComps(Split(p, "/"), <<>>)
    IN  IF cs = <<>> THEN <<"/">> ELSE cs[Len(cs)]

\* A file system maps the paths it holds to entries; every other path is
\* absent.
Absent == [kind |-> "absent"]
Dir == [kind |-> "dir"]
File(c) == [kind |-> "file", content |-> c]

\* A directory without any permission bit: it can be stat'ed, but neither
\* opened nor searched.
LockedDir == [kind |-> "lockeddir"]

\* info.IsDir().
IsDir(e) == e.kind \in {"dir", "lockeddir"}

Lookup(fsys, p) ==
    IF p = <<"/">> THEN Dir ELSE IF p \in DOMAIN fsys THEN fsys[p] ELSE Absent

\* TRUE when every directory on the way to p is a directory.
RECURSIVE Reachable(_, _)
Reachable(fsys, p) ==
    IF p = <<"/">> THEN TRUE
    ELSE Lookup(fsys, Parent(p)).kind = "dir" /\ Reachable(fsys, Parent(p))

\* os.Stat(p): "ok", "notexist" (the error os.IsNotExist recognises),
\* "denied" (a directory on the way may not be searched: EACCES) or "notdir"
\* (a component of the path is a file: ENOTDIR).
Stat(fsys, p) ==
    IF Reachable(fsys, p) THEN (IF Lookup(fsys, p).kind = "absent" THEN "notexist" ELSE "ok")
    ELSE IF \E q \in DOMAIN fsys :
               /\ fsys[q].kind = "lockeddir"
               /\ Len(q) < Len(p)
               /\ SubSeq(p, 1, Len(q) + 1) = q \o <<"/">>
               /\ Reachable(fsys, q)
         THEN "denied"
    ELSE IF \E q \in DOMAIN fsys :
               /\ fsys[q].kind = "file"
               /\ Len(q) < Len(p)
               /\ SubSeq(p, 1, Len(q) + 1) = q \o <<"/">>
               /\ Reachable(fsys, q)
         THEN "notdir"
    ELSE "notexist"

\* os.ReadFile(p): the content of a file, an error for anything else.
ReadFile(fsys, p) ==
    IF Stat(fsys, p) = "ok" /\ Lookup(fsys, p).kind = "file"
    THEN [ok |-> TRUE, content |-> Lookup(fsys, p).content]
    ELSE [ok |-> FALSE,
          err |-> IF Stat(fsys, p) = "ok" THEN "is a directory"
                  ELSE IF Stat(fsys, p) = "denied" THEN "permission denied"
                  ELSE IF Stat(fsys, p) = "notdir" THEN "not a directory"
                  ELSE "no such file or directory"]

(***************************************************************************)
(* http.ResponseWriter.                                                    *)
(***************************************************************************)

\* status 0: the header has not been written yet.  sent is the header map as
\* it stood when the status line was written.  conn is the connection under
\* the writer: "open", "breaking" (the next write gets half of its bytes out
\* and fails) or "broken" (every write fails); werr tells that a write has
\* returned an error.
NewWriter ==
    [status |-> 0, header |-> <<>>, sent |-> <<>>, body |-> <<>>, conn |-> "open", werr |-> FALSE]

HeaderSet(w, k, v) == [w EXCEPT !.header = (k :> v) @@ @]

HeaderDel(w, k) ==
    [w EXCEPT !.header = [h \in (DOMAIN @) \ {k} |-> @[h]]]

WriteHeader(w, code) ==
    IF w.status # 0 THEN w
    ELSE [w EXCEPT !.status = code, !.sent = w.header]

\* Write: the header is written first if it has not been, also when the
\* bytes then fail to go out; it returns an error exactly when the
\* connection is not open.
Write(w, bytes) ==
    LET w1 == WriteHeader(w, 200)
    IN  IF w.conn = "open" THEN [w1 EXCEPT !.body = @ \o bytes]
        ELSE IF w.conn = "breaking"
        THEN [w1 EXCEPT !.body = @ \o SubSeq(bytes, 1, Len(bytes) \div 2),
                        !.conn = "broken", !.werr = TRUE]
        ELSE [w1 EXCEPT !.werr = TRUE]

\* http.Error(w, msg, code).
HttpError(w, msg, code) ==
    LET w1 == HeaderDel(w, "Content-Length")
        w2 == HeaderSet(w1, "Content-Type", "text/plain; charset=utf-8")
        w3 == HeaderSet(w2, "X-Content-Type-Options", "nosniff")
    IN  Write(WriteHeader(w3, code), msg \o <<"\n">>)

StatusTextInternalServerError ==
    <<"I", "n", "t", "e", "r", "n", "a", "l", " ", "S", "e", "r", "v", "e", "r", " ", "E", "r", "r", "o", "r">>

StatusTextMethodNotAllowed ==
    <<"M", "e", "t", "h", "o", "d", " ", "N", "o", "t", " ", "A", "l", "l", "o", "w", "e", "d">>

(***************************************************************************)
(* The router: http.ServeMux with the three patterns of routes().          *)
(***************************************************************************)

\* url.PathUnescape of one path segment; the requests of the model use the
\* escapes %2f, %2e, %3c and %3e only.
RECURSIVE PathUnescape(_)
PathUnescape(s) ==
    IF s = <<>> THEN <<>>
    ELSE IF Head(s) = "%" /\ Len(s) >= 3 THEN
        LET hex == SubSeq(s, 2, 3)
            c   == CASE hex = <<"2", "f">> -> "/"
                     [] hex = <<"2", "e">> -> "."
                     [] hex = <<"3", "c">> -> "<"
                     [] hex = <<"3", "e">> -> ">"
        IN  <<c>> \o PathUnescape(SubSeq(s, 4, Len(s)))
    ELSE <<Head(s)>> \o PathUnescape(Tail(s))

\* net/http cleanPath: the canonical form of a request path, a trailing
\* slash kept.
CleanURLPath(p) ==
    LET p1 == IF p = <<>> THEN <<"/">> ELSE IF p[1] # "/" THEN <<"/">> \o p ELSE p
        np == Clean(p1)
    IN  IF p1[Len(p1)] = "/" /\ np # <<"/">> THEN np \o <<"/">> ELSE np

\* The patterns "GET /{filename}" and "GET /{filename}/{id}" match paths of
\* exactly one and exactly two non-empty segments; a wildcard never matches
\* a trailing slash.  The pattern "GET /" ends in a slash, so it matches
\* every path the other two do not match.  GET patterns also serve HEAD.
\* A path that is not in canonical form is redirected to its canonical form,
\* and a method no pattern accepts gets 405 since the path matches.
MatchPath(path) ==
    LET segs == Tail(Split(path, "/"))
    IN  IF Len(segs) = 1 /\ segs[1] # <<>>
        THEN [handler |-> "getFileRecords", filename |-> PathUnescape(segs[1]), id |-> <<>>]
        ELSE IF Len(segs) = 2 /\ segs[1] # <<>> /\ segs[2] # <<>>
        THEN [handler |-> "getFileRecordByID", filename |-> PathUnescape(segs[1]),
              id |-> PathUnescape(segs[2])]
        ELSE [handler |-> "home", filename |-> <<>>, id |-> <<>>]

routes(method, path) ==
    IF CleanURLPath(path) # path
    THEN [handler |-> "redirect", filename |-> <<>>, id |-> <<>>]
    ELSE IF method \in {"GET", "HEAD"} THEN MatchPath(path)
    ELSE [handler |-> "methodNotAllowed", filename |-> <<>>, id |-> <<>>]

(***************************************************************************)
(* The application: middleware, helpers and handlers.                      *)
(***************************************************************************)

\* app.dataPath: the directory resolved at startup.
DataRoot == <<"/", "d">>

\* What a handler leaves behind: the response writer, the log entries and the
\* file-system and decoding operations it performed, in order.
Out(w, log, ops) == [w |-> w, log |-> log, ops |-> ops]

commonHeadersNoServer(w) ==
    LET w1 == HeaderSet(w, "Content-Security-Policy",
                  "default-src 'self'; style-src 'self' fonts.googleapis.com; font-src fonts.gstatic.com")
        w2 == HeaderSet(w1, "Referrer-Policy", "origin-when-cross-origin")
        w3 == HeaderSet(w2, "X-Content-Type-Options", "nosniff")
        w4 == HeaderSet(w3, "X-Frame-Options", "deny")
    IN  HeaderSet(w4, "X-XSS-Protection", "0")

commonHeaders(w) ==
    LET w1 == HeaderSet(w, "Content-Security-Policy",
                  "default-src 'self'; style-src 'self' fonts.googleapis.com; font-src fonts.gstatic.com")
        w2 == HeaderSet(w1, "Referrer-Policy", "origin-when-cross-origin")
        w3 == HeaderSet(w2, "X-Content-Type-Options", "nosniff")
        w4 == HeaderSet(w3, "X-Frame-Options", "deny")
        w5 == HeaderSet(w4, "X-XSS-Protection", "0")
    IN  HeaderSet(w5, "Server", "Go")

\* r.URL.RequestURI(): the path as it was requested, with the query string.
RequestURI(r) == IF r.query = <<>> THEN r.path ELSE r.path \o <<"?">> \o r.query

logRequest(r) ==
    [level |-> "INFO", msg |-> "received request", method |-> r.method, uri |-> RequestURI(r)]

\* serverError: the error goes to the log, the client gets the generic 500.
serverError(w, r, err, ops) ==
    Out(HttpError(w, StatusTextInternalServerError, 500),
        <<[level |-> "ERROR", msg |-> err, method |-> r.method, uri |-> RequestURI(r),
           trace |-> TRUE]>>,
        ops)

\* The ".json" extension is added to a name that does not end in it.
EnsureJSONAlways(name) == name \o DotJson

EnsureJSON(name) == IF HasSuffix(name, DotJson) THEN name ELSE name \o DotJson

getRecordsNoStat(fsys, filepath) ==
    LET path == IF HasSuffix(filepath, DotJson) THEN filepath ELSE filepath \o DotJson
        rd   == ReadFile(fsys, path)
    IN  [ok |-> TRUE, content |-> IF rd.ok THEN rd.content ELSE <<>>,
         ops |-> <<[op |-> "read", path |-> path]>>]

\* A loader that answers from memory, without looking at the file system.
getRecordsCached(fsys, filepath) ==
    [ok |-> TRUE, content |-> <<"{", "}">>, ops |-> <<>>]

\* getRecords: the extension is enforced on the path again, the file is
\* stat'ed, and read unless the stat says it does not exist.
getRecords(fsys, filepath) ==
    LET path == IF HasSuffix(filepath, DotJson) THEN filepath ELSE filepath \o DotJson
        stat == [op |-> "stat", path |-> path]
        read == [op |-> "read", path |-> path]
        rd   == ReadFile(fsys, path)
    IN  IF Stat(fsys, path) = "notexist"
        THEN [ok |-> FALSE, err |-> "no such file or directory", ops |-> <<stat>>]
        ELSE IF ~rd.ok THEN [ok |-> FALSE, err |-> rd.err, ops |-> <<stat, read>>]
        ELSE [ok |-> TRUE, content |-> rd.content, ops |-> <<stat, read>>]

MissingFileName ==
    <<"M", "i", "s", "s", "i", "n", "g", " ", "f", "i", "l", "e", " ", "n", "a", "m", "e">>

MissingRecordID ==
    <<"M", "i", "s", "s", "i", "n", "g", " ", "r", "e", "c", "o", "r", "d", " ", "I", "D">>

UnmarshalOp == [op |-> "unmarshal"]

getFileRecordsReencoded(fsys, w, r, filename) ==
    LET name == EnsureJSON(filename)
        gr   == getRecords(fsys, FilepathJoin(DataRoot, name))
        ops  == gr.ops \o <<UnmarshalOp>>
    IN  IF filename = <<>> THEN Out(HttpError(w, MissingFileName, 400), <<>>, <<>>)
        ELSE IF ~gr.ok THEN serverError(w, r, [kind |-> gr.err], gr.ops)
        ELSE IF ~Unmarshal(gr.content).ok
        THEN serverError(w, r, [kind |-> "invalid JSON", file |-> name], ops)
        ELSE Out(Write(HeaderSet(w, "Content-Type", "application/json"),
                       Encode(Unmarshal(gr.content).val)),
                 <<>>, ops)

getFileRecordsUnchecked(fsys, w, r, filename) ==
    LET name == EnsureJSON(filename)
        gr   == getRecords(fsys, FilepathJoin(DataRoot, name))
    IN  IF filename = <<>> THEN Out(HttpError(w, MissingFileName, 400), <<>>, <<>>)
        ELSE IF ~gr.ok THEN serverError(w, r, [kind |-> gr.err], gr.ops)
        ELSE Out(Write(HeaderSet(w, "Content-Type", "application/json"), gr.content),
                 <<>>, gr.ops)

\* getFileRecords: GET /{filename}.
getFileRecords(fsys, w, r, filename) ==
    LET name == EnsureJSON(filename)
        gr   == getRecords(fsys, FilepathJoin(DataRoot, name))
        ops  == gr.ops \o <<UnmarshalOp>>
    IN  IF filename = <<>> THEN Out(HttpError(w, MissingFileName, 400), <<>>, <<>>)
        ELSE IF ~gr.ok THEN serverError(w, r, [kind |-> gr.err], gr.ops)
        ELSE IF ~Unmarshal(gr.content).ok
        THEN serverError(w, r, [kind |-> "invalid JSON", file |-> name], ops)
        ELSE Out(Write(HeaderSet(w, "Content-Type", "application/json"), gr.content),
                 <<>>, ops)

\* The typed target map[string][]map[string]interface{}: null decodes to a
\* nil map, slice or record; any other mismatch is an UnmarshalTypeError.
MemberOK(v) ==
    \/ v.t = "null"
    \/ /\ v.t = "arr"
       /\ \A i \in 1..Len(v.a) : v.a[i].t \in {"null", "obj"}

UnmarshalFileData(b) ==
    LET u == Unmarshal(b)
    IN  IF ~u.ok THEN Fail
        ELSE IF u.val.t = "null" THEN [ok |-> TRUE, val |-> EmptyMap]
        ELSE IF u.val.t # "obj" THEN Fail
        ELSE IF \E k \in DOMAIN u.val.m : ~MemberOK(u.val.m[k]) THEN Fail
        ELSE [ok |-> TRUE,
              val |-> [k \in DOMAIN u.val.m |->
                         IF u.val.m[k].t = "null" THEN <<>> ELSE u.val.m[k].a]]

\* The range loop over fileData, iter being the order in which the map is
\* iterated: the keys, in that order, whose slice is not empty.
RECURSIVE NonEmptyLastFirst(_, _)
NonEmptyLastFirst(fileData, iter) ==
    IF iter = <<>> THEN <<>>
    ELSE NonEmptyLastFirst(fileData, Tail(iter))
         \o (IF Len(fileData[Head(iter)]) > 0 THEN <<Head(iter)>> ELSE <<>>)

\* The keys in the order of the iteration, those of empty slices included.
AllKeysInOrder(fileData, iter) == iter

RECURSIVE NonEmptyInOrder(_, _)
NonEmptyInOrder(fileData, iter) ==
    IF iter = <<>> THEN <<>>
    ELSE (IF Len(fileData[Head(iter)]) > 0 THEN <<Head(iter)>> ELSE <<>>)
         \o NonEmptyInOrder(fileData, Tail(iter))

\* record["id"]: nil for a nil record and for a record without the key.
IdKey == <<"i", "d">>

RecordID(record) ==
    IF record.t = "obj" /\ IdKey \in DOMAIN record.m THEN record.m[IdKey] ELSE Null

\* The search loop: the index of the first record whose id prints as the
\* requested id, 0 when there is none.
RECURSIVE MatchIndexLast(_, _)
MatchIndexLast(records, id) ==
    IF records = <<>> THEN 0
    ELSE IF SprintfV(RecordID(records[Len(records)])) = id THEN Len(records)
    ELSE MatchIndexLast(SubSeq(records, 1, Len(records) - 1), id)

RECURSIVE MatchIndexFrom(_, _, _)
MatchIndexFrom(records, id, i) ==
    IF i > Len(records) THEN 0
    ELSE IF SprintfV(RecordID(records[i])) = id THEN i
    ELSE MatchIndexFrom(records, id, i + 1)

MatchIndex(records, id) == MatchIndexFrom(records, id, 1)

EmptyObject == [t |-> "obj", m |-> EmptyMap]

\* matchedRecord as it is encoded: the matched record, or the empty map when
\* nothing matched or the match is a nil record.
MatchedRecordNoDefault(records, id) ==
    IF MatchIndex(records, id) = 0 THEN Null ELSE records[MatchIndex(records, id)]

MatchedRecord(records, id) ==
    IF MatchIndex(records, id) = 0 \/ records[MatchIndex(records, id)].t = "null"
    THEN EmptyObject
    ELSE records[MatchIndex(records, id)]

\* getFileRecordByID: GET /{filename}/{id}.
getFileRecordByID(fsys, w, r, filename, id, iter) ==
    LET name == EnsureJSON(filename)
        gr   == getRecords(fsys, FilepathJoin(DataRoot, name))
        ops  == gr.ops \o <<UnmarshalOp>>
        fd   == UnmarshalFileData(gr.content)
        keys == NonEmptyInOrder(fd.val, iter)
        json == HeaderSet(w, "Content-Type", "application/json")
    IN  IF filename = <<>> THEN Out(HttpError(w, MissingFileName, 400), <<>>, <<>>)
        ELSE IF id = <<>> THEN Out(HttpError(w, MissingRecordID, 400), <<>>, <<>>)
        ELSE IF ~gr.ok
        THEN serverError(w, r, [kind |-> "error reading file", file |-> name, cause |-> gr.err],
                         gr.ops)
        ELSE IF ~fd.ok THEN serverError(w, r, [kind |-> "invalid JSON", file |-> name], ops)
        ELSE IF keys = <<>> THEN Out(Write(json, Encode(EmptyObject)), <<>>, ops)
        ELSE IF w.conn # "open"
        THEN serverError(Write(json, Encode(MatchedRecord(fd.val[keys[1]], id))), r,
                         [kind |-> "error encoding response"], ops)
        ELSE Out(Write(json, Encode(MatchedRecord(fd.val[keys[1]], id))), <<>>, ops)

\* The keys of the decoded file of a by-ID request: what the range loop
\* iterates over (nothing when the request fails before the loop).
FileDataKeys(fsys, filename) ==
    LET gr == getRecords(fsys, FilepathJoin(DataRoot, EnsureJSON(filename)))
    IN  IF gr.ok /\ UnmarshalFileData(gr.content).ok
        THEN DOMAIN UnmarshalFileData(gr.content).val
        ELSE {}

\* Every order in which the elements of S can be visited.
Orders(S) ==
    {f \in [1..Cardinality(S) -> S] : \A i, j \in 1..Cardinality(S) : f[i] = f[j] => i = j}

\* ListFilesInDirectory: the names of the entries of dirPath that are not
\* directories, in the order the directory returns its entries.
Children(fsys, dirPath) ==
    {p \in DOMAIN fsys : p # <<"/">> /\ Parent(p) = dirPath /\ fsys[p].kind # "absent"}

\* A listing that leaves out the names starting with a dot.
RECURSIVE FileNamesNoHidden(_, _)
FileNamesNoHidden(fsys, entries) ==
    IF entries = <<>> THEN <<>>
    ELSE (IF ~IsDir(fsys[Head(entries)]) /\ Head(Base(Head(entries))) # "."
          THEN <<Base(Head(entries))>> ELSE <<>>)
         \o FileNamesNoHidden(fsys, Tail(entries))

RECURSIVE FileNames(_, _)
FileNames(fsys, entries) ==
    IF entries = <<>> THEN <<>>
    ELSE (IF ~IsDir(fsys[Head(entries)]) THEN <<Base(Head(entries))>> ELSE <<>>)
         \o FileNames(fsys, Tail(entries))

ListFilesInDirectoryLenient(fsys, dirPath, entries) ==
    IF Stat(fsys, dirPath) = "ok" /\ Lookup(fsys, dirPath).kind = "dir"
    THEN [ok |-> TRUE, files |-> FileNames(fsys, entries)]
    ELSE [ok |-> TRUE, files |-> <<>>]

ListFilesInDirectory(fsys, dirPath, entries) ==
    IF Stat(fsys, dirPath) # "ok"
    THEN [ok |-> FALSE,
          err |-> IF Stat(fsys, dirPath) = "denied" THEN "permission denied"
                  ELSE IF Stat(fsys, dirPath) = "notdir" THEN "not a directory"
                  ELSE "no such file or directory"]
    ELSE IF ~IsDir(Lookup(fsys, dirPath)) THEN [ok |-> FALSE, err |-> "file does not exist"]
    ELSE IF Lookup(fsys, dirPath).kind = "lockeddir"
    THEN [ok |-> FALSE, err |-> "permission denied"]
    ELSE [ok |-> TRUE, files |-> FileNames(fsys, entries)]

RECURSIVE StrValues(_)
StrValues(names) ==
    IF names = <<>> THEN <<>>
    ELSE <<[t |-> "str", s |-> Head(names)]>> \o StrValues(Tail(names))

\* home: GET /.  A slice nothing was appended to is nil and encodes as null.
home(fsys, w, r, entries) ==
    LET ls == ListFilesInDirectory(fsys, DataRoot, entries)
        response ==
            [t |-> "obj",
             m |-> (<<"s", "t", "a", "t", "u", "s">> :>
                        [t |-> "str", s |-> <<"s", "u", "c", "c", "e", "s", "s">>])
                   @@ (<<"f", "i", "l", "e", "s">> :>
                        (IF ls.files = <<>> THEN Null
                         ELSE [t |-> "arr", a |-> StrValues(ls.files)]))
                   @@ (<<"c", "o", "u", "n", "t">> :>
                        [t |-> "num", neg |-> FALSE, mag |-> Len(ls.files)])]
        w1 == Write(HeaderSet(w, "Content-Type", "application/json"), Encode(response))
    IN  IF ~ls.ok THEN serverError(w, r, [kind |-> ls.err], <<[op |-> "readdir"]>>)
        ELSE IF w.conn # "open"
        THEN serverError(w1, r, [kind |-> "write error"], <<[op |-> "readdir"]>>)
        ELSE Out(w1, <<>>, <<[op |-> "readdir"]>>)

\* The answers of the router itself: a redirect to the canonical path, or 405.
RedirectBody(location) ==
    <<"<", "a", " ", "h", "r", "e", "f", "=", "\"">> \o location
    \o <<"\"", ">", "M", "o", "v", "e", "d", " ", "P", "e", "r", "m", "a", "n", "e", "n", "t",
         "l", "y", "<", "/", "a", ">", ".", "\n", "\n">>

unrouted(w, r) ==
    IF routes(r.method, r.path).handler = "redirect"
    THEN LET w1 == HeaderSet(w, "Location", RequestURI([r EXCEPT !.path = CleanURLPath(@)]))
             w2 == IF r.method \in {"GET", "HEAD"}
                   THEN HeaderSet(w1, "Content-Type", "text/html; charset=utf-8")
                   ELSE w1
             w3 == WriteHeader(w2, 301)
         IN  Out(IF r.method = "GET" THEN Write(w3, RedirectBody(w1.header["Location"])) ELSE w3,
                 <<>>, <<>>)
    ELSE Out(HttpError(HeaderSet(w, "Allow", "GET, HEAD"), StatusTextMethodNotAllowed, 405),
             <<>>, <<>>)

\* What the server puts on the wire: the status defaults to 200 and the body
\* of a HEAD response is dropped.
Finish(w, method) ==
    LET w1 == WriteHeader(w, 200)
    IN  [status |-> w1.status, header |-> w1.sent,
         body |-> IF method = "HEAD" THEN <<>> ELSE w1.body]

\* The file system after an operation a handler performed on it: os.Stat,
\* os.ReadFile, os.Open with ReadDir, and json.Unmarshal change nothing.
AfterOpTruncating(fsys, op) ==
    IF op.op = "read" /\ op.path \in DOMAIN fsys
    THEN [fsys EXCEPT ![op.path] = File(<<>>)]
    ELSE fsys

AfterOp(fsys, op) == fsys

RECURSIVE Effect(_, _)
Effect(fsys, ops) ==
    IF ops = <<>> THEN fsys ELSE Effect(AfterOp(fsys, Head(ops)), Tail(ops))

\* The mux of routes(): the request goes to the handler of its pattern, or
\* is answered by the router itself.
mux(fsys, w, r, entries, it) ==
    LET rt == routes(r.method, r.path)
    IN  IF rt.handler = "home" THEN home(fsys, w, r, entries)
        ELSE IF rt.handler = "getFileRecords" THEN getFileRecords(fsys, w, r, rt.filename)
        ELSE IF rt.handler = "getFileRecordByID"
        THEN getFileRecordByID(fsys, w, r, rt.filename, rt.id, it)
        ELSE unrouted(w, r)

\* recoverPanic, the deferred function once recover() has returned the value
\* of a panic: w is the writer, log and ops what had been logged and done
\* when the panic was raised.
recoverPanicKeepAlive(w, r, value, log, ops) ==
    LET se == serverError(w, r, [kind |-> "panic", value |-> value], ops)
    IN  Out(se.w, log \o se.log, ops)

recoverPanic(w, r, value, log, ops) ==
    LET se == serverError(HeaderSet(w, "Connection", "close"), r,
                          [kind |-> "panic", value |-> value], ops)
    IN  Out(se.w, log \o se.log, ops)

\* What can go wrong below recoverPanic while a request is handled: the
\* route handler panics before it has done anything or after it has done
\* everything, or the connection fails under the writes of the response.
Panics == {"panic on entry", "panic on exit"}
ConnectionFaults == {"connection breaking", "connection broken"}
Faults == {"none"} \cup Panics \cup ConnectionFaults

\* The handler routes() returns, recoverPanic(logRequest(commonHeaders(mux))),
\* serving request r under fault f.
ServeHTTP(fsys, r, f, entries, it) ==
    LET w0  == [NewWriter EXCEPT !.conn = IF f = "connection breaking" THEN "breaking"
                                          ELSE IF f = "connection broken" THEN "broken"
                                          ELSE "open"]
        w1  == commonHeaders(w0)
        logged == <<logRequest(r)>>
    IN  IF f = "panic on entry" THEN recoverPanic(w1, r, "fault", logged, <<>>)
        ELSE CHOOSE res \in
                 { IF f = "panic on exit"
                   THEN recoverPanic(out.w, r, "fault", logged \o out.log, out.ops)
                   ELSE Out(out.w, logged \o out.log, out.ops) :
                   out \in {mux(fsys, w1, r, entries, it)} } : TRUE

(***************************************************************************)
(* Startup: main, getDataPath, getPort and the helpers of package files.   *)
(***************************************************************************)

KeyGetterPort == <<"G", "E", "T", "T", "E", "R", "_", "P", "O", "R", "T">>
KeyHome == <<"H", "O", "M", "E">>

\* os.Getenv: the value of a variable, the empty string when it is not set.
Getenv(env, k) == IF k \in DOMAIN env THEN env[k] ELSE <<>>

\* os.UserHomeDir: $HOME, an error when it is empty or not set.
UserHomeDir(env) ==
    IF Getenv(env, KeyHome) = <<>> THEN [ok |-> FALSE, dir |-> <<>>]
    ELSE [ok |-> TRUE, dir |-> env[KeyHome]]

IsAbs(p) == p # <<>> /\ p[1] = "/"

\* The working directory of a process whose directory has been removed:
\* os.Getwd fails and relative paths cannot be opened.
NoCwd == <<>>

\* filepath.Abs: an absolute path is cleaned, any other path is joined to
\* the working directory.
Abs(cwd, p) ==
    IF IsAbs(p) THEN [ok |-> TRUE, path |-> Clean(p)]
    ELSE IF cwd = NoCwd THEN [ok |-> FALSE, path |-> <<>>]
    ELSE [ok |-> TRUE, path |-> Clean(cwd \o <<"/">> \o p)]

FolderExists(fsys, p) == Stat(fsys, p) = "ok" /\ IsDir(Lookup(fsys, p))

ExpandAbsolutePathNoTilde(env, cwd, path) ==
    LET abs == Abs(cwd, path)
    IN  IF ~abs.ok THEN [ok |-> FALSE, path |-> <<>>, err |-> "getwd"]
        ELSE [ok |-> TRUE, path |-> abs.path, err |-> ""]

\* ExpandAbsolutePath: a leading ~ becomes the home directory (a rooted
\* path), then the path is made absolute.
ExpandAbsolutePath(env, cwd, path) ==
    LET tilde == path # <<>> /\ path[1] = "~"
        hd    == UserHomeDir(env)
        abs   == Abs(cwd, IF tilde THEN FilepathJoin(hd.dir, Tail(path)) ELSE path)
    IN  IF tilde /\ ~hd.ok THEN [ok |-> FALSE, path |-> <<>>, err |-> "$HOME is not defined"]
        ELSE IF ~abs.ok THEN [ok |-> FALSE, path |-> <<>>, err |-> "getwd"]
        ELSE [ok |-> TRUE, path |-> abs.path, err |-> ""]

NotADirectory == "The path does not exist or is not a directory"

getDataPathUnchecked(fsys, env, cwd, dataPath) ==
    LET ex == ExpandAbsolutePath(env, cwd, dataPath)
    IN  IF ~ex.ok THEN [ok |-> FALSE, path |-> <<>>, err |-> ex.err]
        ELSE [ok |-> TRUE, path |-> ex.path, err |-> ""]

getDataPath(fsys, env, cwd, dataPath) ==
    LET ex == ExpandAbsolutePath(env, cwd, dataPath)
    IN  IF ~ex.ok THEN [ok |-> FALSE, path |-> <<>>, err |-> ex.err]
        ELSE IF ~FolderExists(fsys, ex.path)
        THEN [ok |-> FALSE, path |-> <<>>, err |-> NotADirectory]
        ELSE [ok |-> TRUE, path |-> ex.path, err |-> ""]

\* godotenv: the lines NAME=value of a file; a line that is empty or starts
\* with # is skipped, a line without = is an error.
IndexOf(s, c) ==
    IF \E i \in 1..Len(s) : s[i] = c
    THEN CHOOSE i \in 1..Len(s) : s[i] = c /\ \A j \in 1..(i - 1) : s[j] # c
    ELSE 0

RECURSIVE ParseEnvLines(_, _)
ParseEnvLines(lines, acc) ==
    IF lines = <<>> THEN [ok |-> TRUE, vars |-> acc]
    ELSE LET line == Head(lines)
             eq   == IndexOf(line, "=")
         IN  IF line = <<>> \/ line[1] = "#" THEN ParseEnvLines(Tail(lines), acc)
             ELSE IF eq <= 1 THEN [ok |-> FALSE, vars |-> <<>>]
             ELSE ParseEnvLines(Tail(lines),
                      (SubSeq(line, 1, eq - 1) :> SubSeq(line, eq + 1, Len(line))) @@ acc)

ParseEnv(content) == ParseEnvLines(Split(content, "\n"), <<>>)

DotEnv == <<".", "e", "n", "v">>

\* godotenv.Load(): the file .env of the working directory is read and its
\* variables are set, except those the environment already holds.
Load(fsys, env, cwd) ==
    LET rd == IF cwd = NoCwd THEN [ok |-> FALSE] ELSE ReadFile(fsys, FilepathJoin(cwd, DotEnv))
        pe == ParseEnv(rd.content)
    IN  IF ~rd.ok THEN [ok |-> FALSE, env |-> env]
        ELSE IF ~pe.ok THEN [ok |-> FALSE, env |-> env]
        ELSE [ok |-> TRUE, env |-> env @@ pe.vars]

DefaultPort == <<":", "8", "0", "8", "0">>

getPortFileFirst(fsys, env, cwd) ==
    LET ld == Load(fsys, <<>>, cwd)
    IN  IF ld.ok /\ Getenv(ld.env, KeyGetterPort) # <<>> THEN Getenv(ld.env, KeyGetterPort)
        ELSE IF Getenv(env, KeyGetterPort) # <<>> THEN Getenv(env, KeyGetterPort)
        ELSE DefaultPort

getPort(fsys, env, cwd) ==
    LET ld == Load(fsys, env, cwd)
    IN  IF Getenv(env, KeyGetterPort) # <<>> THEN Getenv(env, KeyGetterPort)
        ELSE IF ld.ok /\ Getenv(ld.env, KeyGetterPort) # <<>> THEN Getenv(ld.env, KeyGetterPort)
        ELSE DefaultPort

\* A process: its command line (the program name first), environment and
\* working directory, and how far main has come: "start", "listening" with
\* the data path and the address of the server, or "exited" with a code and
\* the line printed before.
Process(args, env, cwd) ==
    [phase |-> "start", args |-> args, env |-> env, cwd |-> cwd,
     dataPath |-> <<>>, addr |-> <<>>, code |-> 0, out |-> ""]

Exit(p, code, out) == [p EXCEPT !.phase = "exited", !.code = code, !.out = out]

\* main, up to the call of ListenAndServe.
main(fsys, p) ==
    LET dp == getDataPath(fsys, p.env, p.cwd, p.args[2])
    IN  IF Len(p.args) # 2 THEN Exit(p, 1, "Usage: getter <folder>")
        ELSE IF ~dp.ok THEN Exit(p, 1, dp.err)
        ELSE [p EXCEPT !.phase = "listening", !.dataPath = dp.path,
                       !.addr = getPort(fsys, p.env, p.cwd)]

(***************************************************************************)
(* The data directory and the requests of the model.                       *)
(***************************************************************************)

\* Numeric ids are the powers of ten up to 10^MaxPow.
MaxPow == 6

RECURSIVE Pow10(_)
Pow10(k) == IF k = 0 THEN 1 ELSE 10 * Pow10(k - 1)

PowIds == {Pow10(k) : k \in 0..MaxPow}

\* {"items":[{"id":1,"name":"a"},{"id":2,"name":"b"}]}
DocItems ==
    <<"{", "\"", "i", "t", "e", "m", "s", "\"", ":", "[", "{", "\"", "i", "d", "\"", ":", "1", ",", "\"", "n", "a", "m", "e", "\"", ":", "\"", "a", "\"", "}", ",", "{", "\"", "i", "d", "\"", ":", "2", ",", "\"", "n", "a", "m", "e", "\"", ":", "\"", "b", "\"", "}", "]", "}">>

\* [1,2]
DocBareArray ==
    <<"[", "1", ",", "2", "]">>

\* 7
DocNumber ==
    <<"7">>

\* null
DocNull ==
    <<"n", "u", "l", "l">>

\* "x"
DocString ==
    <<"\"", "x", "\"">>

\* true
DocTrue ==
    <<"t", "r", "u", "e">>

\* (an empty file)
DocEmptyFile ==
    <<>>

\* {not valid}
DocNotValid ==
    <<"{", "n", "o", "t", " ", "v", "a", "l", "i", "d", "}">>

\* {"r":[{"id":1}
DocTruncated ==
    <<"{", "\"", "r", "\"", ":", "[", "{", "\"", "i", "d", "\"", ":", "1", "}">>

\* {"r":[{"id":1}]} x
DocTrailing ==
    <<"{", "\"", "r", "\"", ":", "[", "{", "\"", "i", "d", "\"", ":", "1", "}", "]", "}", " ", "x">>

\* 01
DocLeadingZero ==
    <<"0", "1">>

\* [1,]
DocTrailingComma ==
    <<"[", "1", ",", "]">>

\* {"a":1}
DocMemberNumber ==
    <<"{", "\"", "a", "\"", ":", "1", "}">>

\* {"a":{"id":1}}
DocMemberObject ==
    <<"{", "\"", "a", "\"", ":", "{", "\"", "i", "d", "\"", ":", "1", "}", "}">>

\* {"a":[1]}
DocElementNumber ==
    <<"{", "\"", "a", "\"", ":", "[", "1", "]", "}">>

\* {"r":[{"id":1},"x"]}
DocElementMixed ==
    <<"{", "\"", "r", "\"", ":", "[", "{", "\"", "i", "d", "\"", ":", "1", "}", ",", "\"", "x", "\"", "]", "}">>

\* {"a":[null,{"id":"x","n":1}]}
DocElementNull ==
    <<"{", "\"", "a", "\"", ":", "[", "n", "u", "l", "l", ",", "{", "\"", "i", "d", "\"", ":", "\"", "x", "\"", ",", "\"", "n", "\"", ":", "1", "}", "]", "}">>

\* {"a":null}
DocMemberNull ==
    <<"{", "\"", "a", "\"", ":", "n", "u", "l", "l", "}">>

\* {}
DocEmptyObject ==
    <<"{", "}">>

\* {"a":[]}
DocEmptyArray ==
    <<"{", "\"", "a", "\"", ":", "[", "]", "}">>

\* {"e":[],"r":[{"id":"1","v":true}]}
DocEmptyThenRecords ==
    <<"{", "\"", "e", "\"", ":", "[", "]", ",", "\"", "r", "\"", ":", "[", "{", "\"", "i", "d", "\"", ":", "\"", "1", "\"", ",", "\"", "v", "\"", ":", "t", "r", "u", "e", "}", "]", "}">>

\* {"p":[{"id":1,"k":"p"}],"q":[{"id":2,"k":"q"}]}
DocTwoCollections ==
    <<"{", "\"", "p", "\"", ":", "[", "{", "\"", "i", "d", "\"", ":", "1", ",", "\"", "k", "\"", ":", "\"", "p", "\"", "}", "]", ",", "\"", "q", "\"", ":", "[", "{", "\"", "i", "d", "\"", ":", "2", ",", "\"", "k", "\"", ":", "\"", "q", "\"", "}", "]", "}">>

\* {"r":[{"id":1,"n":"x"},{"id":1,"n":"y"}]}
DocDuplicateIds ==
    <<"{", "\"", "r", "\"", ":", "[", "{", "\"", "i", "d", "\"", ":", "1", ",", "\"", "n", "\"", ":", "\"", "x", "\"", "}", ",", "{", "\"", "i", "d", "\"", ":", "1", ",", "\"", "n", "\"", ":", "\"", "y", "\"", "}", "]", "}">>

\* {"r":[{"id":"1","n":"s"},{"id":1,"n":"n"}]}
DocStringThenNumber ==
    <<"{", "\"", "r", "\"", ":", "[", "{", "\"", "i", "d", "\"", ":", "\"", "1", "\"", ",", "\"", "n", "\"", ":", "\"", "s", "\"", "}", ",", "{", "\"", "i", "d", "\"", ":", "1", ",", "\"", "n", "\"", ":", "\"", "n", "\"", "}", "]", "}">>

\*  {"r" : [\n\t{"z":1, "id":2, "a":[1,"s",null,{"k":false}]} ] }\n
DocFormatted ==
    <<" ", "{", "\"", "r", "\"", " ", ":", " ", "[", "\n", "\t", "{", "\"", "z", "\"", ":", "1", ",", " ", "\"", "i", "d", "\"", ":", "2", ",", " ", "\"", "a", "\"", ":", "[", "1", ",", "\"", "s", "\"", ",", "n", "u", "l", "l", ",", "{", "\"", "k", "\"", ":", "f", "a", "l", "s", "e", "}", "]", "}", " ", "]", " ", "}", "\n">>

\* {"r":[{"n":"noid"},{"id":null,"n":"nullid"}]}
DocNoId ==
    <<"{", "\"", "r", "\"", ":", "[", "{", "\"", "n", "\"", ":", "\"", "n", "o", "i", "d", "\"", "}", ",", "{", "\"", "i", "d", "\"", ":", "n", "u", "l", "l", ",", "\"", "n", "\"", ":", "\"", "n", "u", "l", "l", "i", "d", "\"", "}", "]", "}">>

\* {"r":[{"id":-5},{"id":true},{"id":[1,2]},{"id":{"b":1,"a":"x"}},{"id":-0}]}
DocOddIds ==
    <<"{", "\"", "r", "\"", ":", "[", "{", "\"", "i", "d", "\"", ":", "-", "5", "}", ",", "{", "\"", "i", "d", "\"", ":", "t", "r", "u", "e", "}", ",", "{", "\"", "i", "d", "\"", ":", "[", "1", ",", "2", "]", "}", ",", "{", "\"", "i", "d", "\"", ":", "{", "\"", "b", "\"", ":", "1", ",", "\"", "a", "\"", ":", "\"", "x", "\"", "}", "}", ",", "{", "\"", "i", "d", "\"", ":", "-", "0", "}", "]", "}">>

\* {"r":[{"id":3}],"r":[{"id":1,"id":2,"n":"last"}]}
DocRepeatedKey ==
    <<"{", "\"", "r", "\"", ":", "[", "{", "\"", "i", "d", "\"", ":", "3", "}", "]", ",", "\"", "r", "\"", ":", "[", "{", "\"", "i", "d", "\"", ":", "1", ",", "\"", "i", "d", "\"", ":", "2", ",", "\"", "n", "\"", ":", "\"", "l", "a", "s", "t", "\"", "}", "]", "}">>

\* {"r":[{"id":n}]} and {"r":[{"id":"n"}]}
DocNumId(n) ==
    <<"{", "\"", "r", "\"", ":", "[", "{", "\"", "i", "d", "\"", ":">> \o NatToStr(n) \o <<"}", "]", "}">>

DocStrId(n) ==
    <<"{", "\"", "r", "\"", ":", "[", "{", "\"", "i", "d", "\"", ":">> \o <<"\"">> \o NatToStr(n) \o <<"\"">> \o <<"}", "]", "}">>

Contents ==
    { DocItems, DocBareArray, DocNumber, DocNull,
      DocString, DocTrue, DocEmptyFile, DocNotValid,
      DocTruncated, DocTrailing, DocLeadingZero, DocTrailingComma,
      DocMemberNumber, DocMemberObject, DocElementNumber, DocElementMixed,
      DocElementNull, DocMemberNull, DocEmptyObject, DocEmptyArray,
      DocEmptyThenRecords, DocTwoCollections, DocDuplicateIds, DocStringThenNumber,
      DocFormatted, DocNoId, DocOddIds, DocRepeatedKey }
    \cup {DocNumId(n) : n \in PowIds} \cup {DocStrId(n) : n \in PowIds}

\* The request paths of the model, as they arrive (escaped).
PathRoot == <<"/">>
PathA == <<"/", "a">>
PathAJson == <<"/", "a", ".", "j", "s", "o", "n">>
PathB == <<"/", "b">>
PathMissing == <<"/", "z", "z">>
PathSub == <<"/", "s", "u", "b">>
PathBOne == <<"/", "b", "/", "2">>
PathMissingOne == <<"/", "z", "z", "/", "1">>
PathThree == <<"/", "a", "/", "b", "/", "c">>
PathSlash == <<"/", "a", "/">>
PathIdSlash == <<"/", "a", "/", "1", "/">>
PathDouble == <<"/", "/", "a">>
PathDotDot == <<"/", "a", "/", ".", ".", "/", "b">>
PathEscaped == <<"/", ".", ".", "%", "2", "f", "x", "/", "1">>

\* The ids requested under /a and /a.json: the powers of ten and
\* 1, 2, 3, x, <nil>, 1e+06, -5, true (< and > arrive escaped).
RequestIds ==
    {NatToStr(n) : n \in PowIds}
    \cup { <<"1">>,
           <<"2">>,
           <<"3">>,
           <<"x">>,
           <<"%", "3", "c", "n", "i", "l", "%", "3", "e">>,
           <<"1", "e", "+", "0", "6">>,
           <<"-", "5">>,
           <<"t", "r", "u", "e">> }

GetPaths ==
    { PathRoot, PathA, PathAJson, PathB, PathMissing, PathSub, PathBOne, PathMissingOne, PathThree, PathSlash, PathIdSlash, PathDouble, PathDotDot, PathEscaped }
    \cup {PathA \o <<"/">> \o i : i \in RequestIds}
    \cup {PathAJson \o <<"/">> \o i : i \in {<<"1">>, <<"2">>}}

Requests ==
    [method : {"GET"}, path : GetPaths, query : {<<>>}]
    \cup [method : {"HEAD"}, path : {PathRoot, PathA, PathBOne}, query : {<<>>}]
    \cup [method : {"POST"}, path : {PathRoot, PathA, PathBOne, PathThree, PathDouble},
          query : {<<>>}]

\* The data directory: a.json is the file other processes rewrite, b.json
\* and sub.json (a directory) stay as they are; x.json lies outside DataRoot.
FileA == <<"/", "d", "/", "a", ".", "j", "s", "o", "n">>
FileB == <<"/", "d", "/", "b", ".", "j", "s", "o", "n">>
DirSub == <<"/", "d", "/", "s", "u", "b", ".", "j", "s", "o", "n">>
FileOutside == <<"/", "x", ".", "j", "s", "o", "n">>

DirectoryWith(a) ==
    (DataRoot :> Dir) @@ (FileA :> a) @@ (FileB :> File(DocItems)) @@ (DirSub :> Dir)
    @@ (FileOutside :> File(DocTwoCollections))

(***************************************************************************)
(* The server as a state machine: one request at a time is read, routed    *)
(* and answered; fs is the file system, the other variables describe the   *)
(* request answered last since the directory last changed.                 *)
(***************************************************************************)
VARIABLES
    fs,       \* the file system
    req,      \* the request: [method, path, query]
    handler,  \* the handler the router dispatched it to
    resp,     \* the response on the wire: [status, header, body]
    log,      \* the log entries written for it
    ops,      \* the file-system and decoding operations performed for it
    iter,     \* the order in which the by-ID handler iterated over the map
    fault,    \* what went wrong while it was handled: an element of Faults
    proc,     \* the process: its command line, environment and progress of main
    flight    \* the requests in flight, by goroutine: position and local variables

vars == <<fs, req, handler, resp, log, ops, iter, fault, proc, flight>>

NoRequest == [method |-> "", path |-> <<>>, query |-> <<>>]
NoResponse == [status |-> 0, header |-> <<>>, body |-> <<>>]

\* The number of requests that can be in flight at the same time.
MaxInFlight == 2

\* A goroutine of the server that serves no request: where it is (pc), the
\* wrapper of the chain it is about to run (at), how the handler was reached
\* (via), the request, the writer, what it has logged and done, whether the
\* deferred function of recoverPanic is in place and has recovered a panic,
\* the handler, its path values, the path and the bytes it has read, and
\* the order in which it iterated over the decoded map.
Idle ==
    [pc |-> "idle", at |-> 0, via |-> "", r |-> NoRequest, w |-> NewWriter, log |-> <<>>,
     ops |-> <<>>, deferred |-> FALSE, panicked |-> FALSE, h |-> "", filename |-> <<>>,
     id |-> <<>>, path |-> <<>>, content |-> <<>>, it |-> <<>>]

\* The server as started by "getter /d" in the directory /, listening.
Program == <<"g", "e", "t", "t", "e", "r">>
Serving == main(DirectoryWith(File(DocItems)), Process(<<Program, DataRoot>>, <<>>, <<"/">>))

Init ==
    /\ fs = DirectoryWith(File(DocItems))
    /\ req = NoRequest
    /\ handler = "none"
    /\ resp = NoResponse
    /\ log = <<>>
    /\ ops = <<>>
    /\ iter = <<>>
    /\ fault = "none"
    /\ proc = Serving
    /\ flight = [i \in 1..MaxInFlight |-> Idle]

\* recoverPanic, logRequest and commonHeaders around the router: the request
\* is logged, the security headers are set, then the handler runs.
Answer(r, h, out, it) ==
    /\ req' = r
    /\ handler' = h
    /\ resp' = Finish(out.w, r.method)
    /\ log' = <<logRequest(r)>> \o out.log
    /\ ops' = out.ops
    /\ iter' = it
    /\ fault' = "none"
    /\ UNCHANGED <<fs, proc, flight>>

Home ==
    \E r \in Requests :
        /\ routes(r.method, r.path).handler = "home"
        /\ \E entries \in Orders(Children(fs, DataRoot)) :
               Answer(r, "home", home(fs, commonHeaders(NewWriter), r, entries), <<>>)

GetFileRecords ==
    \E r \in Requests :
        LET rt == routes(r.method, r.path)
        IN  /\ rt.handler = "getFileRecords"
            /\ Answer(r, "getFileRecords",
                      getFileRecords(fs, commonHeaders(NewWriter), r, rt.filename), <<>>)

GetFileRecordByID ==
    \E r \in Requests :
        LET rt == routes(r.method, r.path)
        IN  /\ rt.handler = "getFileRecordByID"
            /\ \E it \in Orders(FileDataKeys(fs, rt.filename)) :
                   Answer(r, "getFileRecordByID",
                          getFileRecordByID(fs, commonHeaders(NewWriter), r,
                                            rt.filename, rt.id, it),
                          it)

Unrouted ==
    \E r \in Requests :
        /\ routes(r.method, r.path).handler \in {"redirect", "methodNotAllowed"}
        /\ Answer(r, routes(r.method, r.path).handler,
                  unrouted(commonHeaders(NewWriter), r), <<>>)

\* Another process replaces, creates or deletes a.json; the variables that
\* describe the last request start afresh.
Rewrite ==
    /\ \E e \in {File(c) : c \in Contents} \cup {Absent} : fs' = DirectoryWith(e)
    /\ req' = NoRequest
    /\ handler' = "none"
    /\ resp' = NoResponse
    /\ log' = <<>>
    /\ ops' = <<>>
    /\ iter' = <<>>
    /\ fault' = "none"
    /\ UNCHANGED <<proc, flight>>

Next == Home \/ GetFileRecords \/ GetFileRecordByID \/ Unrouted \/ Rewrite

Spec == Init /\ [][Next]_vars

(***************************************************************************)
(* The server under faults and over changing directories: requests are     *)
(* served by the handler of routes() while a handler may panic, the        *)
(* connection may fail, and other processes rearrange the data directory.  *)
(***************************************************************************)

FileHidden == <<"/", "d", "/", ".", "h", "i", "d", "d", "e", "n">>
FileSpaced == <<"/", "d", "/", "m", "y", " ", "f", "i", "l", "e", ".", "t", "x", "t">>
FileAccent == <<"/", "d", "/", "é", ".", "j", "s", "o", "n">>
FileNested == <<"/", "d", "/", "s", "u", "b", ".", "j", "s", "o", "n", "/", "n", ".", "j", "s", "o", "n">>

\* A data directory with a dotfile, a name with a space and dots, a name
\* that is not ASCII, and a subdirectory holding a file.
DirectoryRich ==
    (DataRoot :> Dir) @@ (FileHidden :> File(DocItems)) @@ (FileSpaced :> File(<<>>))
    @@ (FileAccent :> File(DocItems)) @@ (DirSub :> Dir) @@ (FileNested :> File(DocItems))

\* The states other processes leave the data directory in: as at startup,
\* a.json invalid, changed or gone, no entry at all, subdirectories only, the
\* directory removed, replaced by a regular file, or without permissions.
Directories ==
    { DirectoryWith(File(DocItems)),
      DirectoryWith(File(DocTruncated)),
      DirectoryWith(File(DocTwoCollections)),
      DirectoryWith(Absent),
      DirectoryRich,
      (DataRoot :> Dir),
      (DataRoot :> Dir) @@ (DirSub :> Dir) @@ (FileNested :> File(DocItems)),
      (FileOutside :> File(DocItems)),
      (DataRoot :> File(DocItems)),
      (DataRoot :> LockedDir) @@ (FileA :> File(DocItems)) }

QueryX == <<"x", "=", "1">>

FaultRequests ==
    [method : {"GET"}, path : {PathRoot, PathA, PathBOne, PathMissing, PathDouble, PathThree},
     query : {<<>>}]
    \cup [method : {"GET"}, path : {PathRoot, PathA, PathMissingOne}, query : {QueryX}]
    \cup [method : {"HEAD", "POST"}, path : {PathRoot, PathA}, query : {<<>>}]

\* One request is served by the handler of routes().  The order of the
\* directory entries matters to the listing only, the order of the map
\* iteration to the by-ID handler only; a connection fault is one of a
\* response with a body.
Serve ==
    \E r \in FaultRequests, f \in Faults :
        LET h == routes(r.method, r.path).handler
        IN  /\ f \in ConnectionFaults => r.method = "GET"
            /\ \E entries \in (IF h = "home" THEN Orders(Children(fs, DataRoot)) ELSE {<<>>}),
                  it \in (IF h = "getFileRecordByID"
                          THEN Orders(FileDataKeys(fs, routes(r.method, r.path).filename))
                          ELSE {<<>>}) :
                   \E out \in {ServeHTTP(fs, r, f, entries, it)} :
                       /\ req' = r
                       /\ handler' = h
                       /\ resp' = Finish(out.w, r.method)
                       /\ log' = out.log
                       /\ ops' = out.ops
                       /\ iter' = it
                       /\ fault' = f
                       /\ fs' = Effect(fs, out.ops)
                       /\ UNCHANGED <<proc, flight>>

\* Another process rearranges the data directory; the variables that
\* describe the last request start afresh.
DirChange ==
    /\ \E d \in Directories : fs' = d
    /\ req' = NoRequest
    /\ handler' = "none"
    /\ resp' = NoResponse
    /\ log' = <<>>
    /\ ops' = <<>>
    /\ iter' = <<>>
    /\ fault' = "none"
    /\ UNCHANGED <<proc, flight>>

FaultNext == Serve \/ DirChange

FaultSpec == Init /\ [][FaultNext]_vars

(***************************************************************************)
(* Startup as a state machine: a process is started with some command      *)
(* line, environment and working directory over some file system; main     *)
(* runs up to ListenAndServe, which may return with an error later.        *)
(***************************************************************************)

PathHome == <<"/", "h">>
PathHomeData == <<"/", "h", "/", "d">>
PathWork == <<"/", "w">>
PathWorkEnv == <<"/", "w", "/", ".", "e", "n", "v">>
PathFile == <<"/", "f">>

\* GETTER_PORT=:5000
EnvFilePort == <<"G", "E", "T", "T", "E", "R", "_", "P", "O", "R", "T", "=", ":", "5", "0", "0", "0">>
\* # port, then OTHER=1, then GETTER_PORT=:5000, each on a line
EnvFileLines == <<"#", " ", "p", "o", "r", "t">> \o <<"\n">> \o <<"O", "T", "H", "E", "R", "=", "1">> \o <<"\n">> \o EnvFilePort \o <<"\n">>
\* GETTER_PORT=
EnvFileEmptyPort == <<"G", "E", "T", "T", "E", "R", "_", "P", "O", "R", "T", "=">>
\* OTHER=1
EnvFileOther == <<"O", "T", "H", "E", "R", "=", "1">>
\* garbage
EnvFileInvalid == <<"g", "a", "r", "b", "a", "g", "e">>

EnvFiles == {EnvFilePort, EnvFileLines, EnvFileEmptyPort, EnvFileOther, EnvFileInvalid}

\* The file systems of startup: the directories /d, /h, /h/d and /w, the
\* regular file /f, and /w/.env with any of the contents, or without it.
StartupDirectory(e) ==
    (DataRoot :> Dir) @@ (PathHome :> Dir) @@ (PathHomeData :> Dir) @@ (PathWork :> Dir)
    @@ (PathFile :> File(DocItems)) @@ (PathWorkEnv :> e)

StartupDirectories == {StartupDirectory(File(c)) : c \in EnvFiles} \cup {StartupDirectory(Absent)}

PortEnv == <<":", "3", "0", "0", "0">>

Environments ==
    {p @@ h : p \in {<<>>, (KeyGetterPort :> <<>>), (KeyGetterPort :> PortEnv)},
              h \in {<<>>, (KeyHome :> <<>>), (KeyHome :> PathHome)}}

\* The arguments after the program name: none, one (absolute, with ~,
\* relative, empty, not clean, missing, a regular file), or two.
ArgumentLists ==
    { <<>>,
      <<DataRoot>>,
      <<<<"~">>>>,
      <<<<"~", "/", "d">>>>,
      <<<<"~", "/", "z", "z">>>>,
      <<<<"d">>>>,
      <<<<".", ".", "/", "d", "/">>>>,
      <<<<>>>>,
      <<<<"/", "d", "/", ".", ".", "/", "h", "/", "/", "d", "/", ".">>>>,
      <<PathMissing>>,
      <<PathFile>>,
      <<DataRoot, DataRoot>> }

WorkingDirectories == {<<"/">>, PathWork, NoCwd}

StartupInit ==
    /\ fs \in StartupDirectories
    /\ proc \in {Process(<<Program>> \o a, e, c) :
                    a \in ArgumentLists, e \in Environments, c \in WorkingDirectories}
    /\ req = NoRequest
    /\ handler = "none"
    /\ resp = NoResponse
    /\ log = <<>>
    /\ ops = <<>>
    /\ iter = <<>>
    /\ fault = "none"
    /\ flight = [i \in 1..MaxInFlight |-> Idle]

\* main runs: the process exits or its server listens.
Main ==
    /\ proc.phase = "start"
    /\ proc' = main(fs, proc)
    /\ UNCHANGED <<fs, req, handler, resp, log, ops, iter, fault, flight>>

\* ListenAndServe returns (it only returns with an error): the error is
\* logged and the process exits with code 1.
ListenAndServeReturns ==
    /\ proc.phase = "listening"
    /\ proc' = Exit(proc, 1, "listener failed")
    /\ UNCHANGED <<fs, req, handler, resp, log, ops, iter, fault, flight>>

StartupNext == Main \/ ListenAndServeReturns

StartupSpec == StartupInit /\ [][StartupNext]_vars

(***************************************************************************)
(* The server step by step: net/http serves every request on a goroutine   *)
(* of its own, which runs the wrappers of routes() one after the other and *)
(* then the handler, whose accesses to the file system are steps of their  *)
(* own; other goroutines and other processes run in between.               *)
(***************************************************************************)

RouteHandlers == {"home", "getFileRecords", "getFileRecordByID"}

\* alice.New(app.recoverPanic, app.logRequest, commonHeaders).Then(mux): the
\* wrappers in the order in which a request enters them.
WrappersLogFirst == <<"logRequest", "recoverPanic", "commonHeaders", "mux">>

Wrappers == <<"recoverPanic", "logRequest", "commonHeaders", "mux">>

\* The local variables of goroutine i: w, r and what the handler declares
\* belong to one invocation.
LocalsShared(fl, i) == [fl[i] EXCEPT !.content = fl[1].content]

Locals(fl, i) == fl[i]

\* The goroutine that serves request r, about to enter the first wrapper.
Accepted(r) == [Idle EXCEPT !.pc = "chain", !.at = 1, !.via = "routes", !.r = r]

\* A handler invoked as a function on a request whose path values the caller
\* has set (r.SetPathValue), or not set.
Called(h, r, filename, id) ==
    [Idle EXCEPT !.pc = "handler", !.via = "call", !.r = r, !.h = h,
                 !.filename = filename, !.id = id]

\* The handler returns, out being what it did last.
Done(g, out) == [g EXCEPT !.pc = "done", !.w = out.w, !.log = @ \o out.log, !.ops = out.ops]

\* One wrapper of the chain up to its call of next.ServeHTTP; the mux finds
\* the handler and the path values, or answers itself.
through(g) ==
    LET name == Wrappers[g.at]
        rt   == routes(g.r.method, g.r.path)
    IN  IF name = "recoverPanic" THEN [g EXCEPT !.deferred = TRUE, !.at = @ + 1]
        ELSE IF name = "logRequest"
        THEN [g EXCEPT !.log = @ \o <<logRequest(g.r)>>, !.at = @ + 1]
        ELSE IF name = "commonHeaders" THEN [g EXCEPT !.w = commonHeaders(@), !.at = @ + 1]
        ELSE IF rt.handler \in RouteHandlers
        THEN [g EXCEPT !.pc = "handler", !.h = rt.handler, !.filename = rt.filename,
                       !.id = rt.id]
        ELSE Done([g EXCEPT !.h = rt.handler], unrouted(g.w, g.r))

\* A handler that goes for the file without looking at its path values.
enterUnvalidated(g, fsys, entries) ==
    [g EXCEPT !.pc = "stat", !.path = FilepathJoin(DataRoot, EnsureJSON(g.filename))]

\* The handler up to its first access to the file system: home lists the
\* directory and answers; the record handlers check their path values, add
\* the extension and join the name to the data path.
enter(g, fsys, entries) ==
    IF g.h = "home" THEN Done(g, home(fsys, g.w, g.r, entries))
    ELSE IF g.filename = <<>>
    THEN Done(g, Out(HttpError(g.w, MissingFileName, 400), <<>>, <<>>))
    ELSE IF g.h = "getFileRecordByID" /\ g.id = <<>>
    THEN Done(g, Out(HttpError(g.w, MissingRecordID, 400), <<>>, <<>>))
    ELSE [g EXCEPT !.pc = "stat", !.path = FilepathJoin(DataRoot, EnsureJSON(g.filename))]

\* The error a record handler passes to serverError when getRecords fails.
readError(g, err) ==
    IF g.h = "getFileRecordByID"
    THEN [kind |-> "error reading file", file |-> EnsureJSON(g.filename), cause |-> err]
    ELSE [kind |-> err]

\* getRecords up to os.Stat: the extension is enforced, the file is stat'ed.
getRecordsStat(g, fsys) ==
    LET path == IF HasSuffix(g.path, DotJson) THEN g.path ELSE g.path \o DotJson
        done == g.ops \o <<[op |-> "stat", path |-> path]>>
    IN  IF Stat(fsys, path) = "notexist"
        THEN Done(g, serverError(g.w, g.r, readError(g, "no such file or directory"), done))
        ELSE [g EXCEPT !.pc = "read", !.path = path, !.ops = done]

\* getRecords from os.ReadFile on: the bytes read are the handler's.
getRecordsRead(g, fsys) ==
    LET done == g.ops \o <<[op |-> "read", path |-> g.path]>>
        rd   == ReadFile(fsys, g.path)
    IN  IF ~rd.ok THEN Done(g, serverError(g.w, g.r, readError(g, rd.err), done))
        ELSE [g EXCEPT !.pc = "respond", !.content = rd.content, !.ops = done]

\* A handler that validates the bytes it has read and then serves what the
\* file holds by now.
respondRereading(g, fsys, it) ==
    IF g.h = "getFileRecords" /\ Unmarshal(g.content).ok /\ ReadFile(fsys, g.path).ok
    THEN Done(g, Out(Write(HeaderSet(g.w, "Content-Type", "application/json"),
                           ReadFile(fsys, g.path).content),
                     <<>>, g.ops \o <<UnmarshalOp>>))
    ELSE Done(g, serverError(g.w, g.r, [kind |-> "invalid JSON"], g.ops \o <<UnmarshalOp>>))

\* The record handlers after getRecords has returned the bytes: they are
\* decoded and answered from; the file system is not consulted again.
respond(g, fsys, it) ==
    LET done == g.ops \o <<UnmarshalOp>>
        name == EnsureJSON(g.filename)
        json == HeaderSet(g.w, "Content-Type", "application/json")
        fd   == UnmarshalFileData(g.content)
        keys == NonEmptyInOrder(fd.val, it)
    IN  IF g.h = "getFileRecords"
        THEN IF ~Unmarshal(g.content).ok
             THEN Done(g, serverError(g.w, g.r, [kind |-> "invalid JSON", file |-> name], done))
             ELSE Done(g, Out(Write(json, g.content), <<>>, done))
        ELSE IF ~fd.ok
        THEN Done(g, serverError(g.w, g.r, [kind |-> "invalid JSON", file |-> name], done))
        ELSE IF keys = <<>>
        THEN Done([g EXCEPT !.it = it], Out(Write(json, Encode(EmptyObject)), <<>>, done))
        ELSE IF g.w.conn # "open"
        THEN Done([g EXCEPT !.it = it],
                  serverError(Write(json, Encode(MatchedRecord(fd.val[keys[1]], g.id))), g.r,
                              [kind |-> "error encoding response"], done))
        ELSE Done([g EXCEPT !.it = it],
                  Out(Write(json, Encode(MatchedRecord(fd.val[keys[1]], g.id))), <<>>, done))

\* The code the goroutine runs panics.  With the deferred function of
\* recoverPanic in place the panic is recovered there; without it the panic
\* reaches net/http, which aborts the connection without a response.
panic(g) ==
    IF g.deferred
    THEN [Done(g, recoverPanic(g.w, g.r, "fault", <<>>, g.ops)) EXCEPT !.panicked = TRUE]
    ELSE [g EXCEPT !.pc = "aborted"]

\* The requests served step by step, the path values handlers are called
\* with, and the states other processes leave a.json in meanwhile.
StepRequests ==
    [method : {"GET"}, path : {PathRoot, PathA, PathB, PathMissing, PathA \o <<"/", "1">>},
     query : {<<>>}]
    \cup [method : {"POST"}, path : {PathA}, query : {<<>>}]

PathValues == {<<>>, <<"a">>, <<"1">>}

StepDirectories ==
    { DirectoryWith(File(DocItems)),
      DirectoryWith(File(DocTwoCollections)),
      DirectoryWith(File(DocTruncated)),
      DirectoryWith(Absent) }

OnlyFlight == UNCHANGED <<fs, req, handler, resp, log, ops, iter, fault, proc>>

\* net/http accepts a request and starts a goroutine for it.
Accept(i) ==
    /\ flight[i].pc = "idle"
    /\ \E r \in StepRequests : flight' = [flight EXCEPT ![i] = Accepted(r)]
    /\ OnlyFlight

\* A record handler is called as a function.
Call(i) ==
    /\ flight[i].pc = "idle"
    /\ \E h \in {"getFileRecords", "getFileRecordByID"}, filename \in PathValues,
          id \in PathValues :
           /\ h = "getFileRecords" => id = <<>>
           /\ flight' = [flight EXCEPT
                  ![i] = Called(h, [method |-> "GET", path |-> PathRoot, query |-> <<>>],
                                filename, id)]
    /\ OnlyFlight

Wrap(i) ==
    /\ flight[i].pc = "chain"
    /\ flight' = [flight EXCEPT ![i] = through(Locals(flight, i))]
    /\ OnlyFlight

Enter(i) ==
    /\ flight[i].pc = "handler"
    /\ \E entries \in (IF flight[i].h = "home" THEN Orders(Children(fs, DataRoot))
                       ELSE {<<>>}) :
           flight' = [flight EXCEPT ![i] = enter(Locals(flight, i), fs, entries)]
    /\ OnlyFlight

StatStep(i) ==
    /\ flight[i].pc = "stat"
    /\ flight' = [flight EXCEPT ![i] = getRecordsStat(Locals(flight, i), fs)]
    /\ OnlyFlight

ReadStep(i) ==
    /\ flight[i].pc = "read"
    /\ flight' = [flight EXCEPT ![i] = getRecordsRead(Locals(flight, i), fs)]
    /\ OnlyFlight

Respond(i) ==
    /\ flight[i].pc = "respond"
    /\ \E it \in (IF flight[i].h = "getFileRecordByID"
                     /\ UnmarshalFileData(Locals(flight, i).content).ok
                  THEN Orders(DOMAIN UnmarshalFileData(Locals(flight, i).content).val)
                  ELSE {<<>>}) :
           flight' = [flight EXCEPT ![i] = respond(Locals(flight, i), fs, it)]
    /\ OnlyFlight

\* The code of logRequest, commonHeaders, the mux or the handler panics.
PanicNow(i) ==
    /\ flight[i].via = "routes"
    /\ flight[i].pc \in {"chain", "handler", "stat", "read", "respond"}
    /\ flight[i].pc = "chain" => Wrappers[flight[i].at] # "recoverPanic"
    /\ flight' = [flight EXCEPT ![i] = panic(Locals(flight, i))]
    /\ OnlyFlight

\* The goroutine ends.
Release(i) ==
    /\ flight[i].pc \in {"done", "aborted"}
    /\ flight' = [flight EXCEPT ![i] = Idle]
    /\ OnlyFlight

\* Another process replaces, creates or deletes a.json.
Replace ==
    /\ \E d \in StepDirectories \ {fs} : fs' = d
    /\ UNCHANGED <<req, handler, resp, log, ops, iter, fault, proc, flight>>

\* One request at a time, served step by step or by a direct call of its
\* handler, while the handler may panic and the data directory changes.
StepNext ==
    \/ Accept(1) \/ Call(1) \/ Wrap(1) \/ Enter(1) \/ StatStep(1) \/ ReadStep(1)
    \/ Respond(1) \/ PanicNow(1) \/ Release(1) \/ Replace

StepSpec == Init /\ [][StepNext]_vars

\* Up to MaxInFlight requests at a time over a data directory that does not
\* change.
ConcurrentDirectories ==
    { DirectoryWith(File(DocItems)), DirectoryWith(File(DocTwoCollections)),
      DirectoryWith(Absent) }

ConcurrentInit ==
    /\ fs \in ConcurrentDirectories
    /\ req = NoRequest
    /\ handler = "none"
    /\ resp = NoResponse
    /\ log = <<>>
    /\ ops = <<>>
    /\ iter = <<>>
    /\ fault = "none"
    /\ proc = Serving
    /\ flight = [i \in 1..MaxInFlight |-> Idle]

ConcurrentNext ==
    \E i \in 1..MaxInFlight :
        \/ Accept(i) \/ Wrap(i) \/ Enter(i) \/ StatStep(i) \/ ReadStep(i) \/ Respond(i)
        \/ Release(i)

ConcurrentSpec == ConcurrentInit /\ [][ConcurrentNext]_vars

(***************************************************************************)
(* What the claims speak about, read off the state.                        *)
(***************************************************************************)

HasPrefix(s, prefix) == Len(s) >= Len(prefix) /\ SubSeq(s, 1, Len(prefix)) = prefix

FileMissing == <<"/", "d", "/", "z", "z", ".", "j", "s", "o", "n">>

\* The file in DataRoot a record request names.
TargetFile ==
    CASE HasPrefix(req.path, PathA) -> FileA
      [] HasPrefix(req.path, PathB) -> FileB
      [] HasPrefix(req.path, PathMissing) -> FileMissing
      [] HasPrefix(req.path, PathSub) -> DirSub
      [] OTHER -> FileOutside

TargetIsFile == Lookup(fs, TargetFile).kind = "file"
TargetContent == Lookup(fs, TargetFile).content

\* The id path segment of a by-ID request.
RequestedId == PathUnescape(Split(req.path, "/")[3])

AllRecordsRequest == handler = "getFileRecords" /\ req.method = "GET"
ByIDRequest == handler = "getFileRecordByID" /\ req.method = "GET"

InternalServerErrorBody == StatusTextInternalServerError \o <<"\n">>

IsJSONResponse ==
    /\ resp.status = 200
    /\ "Content-Type" \in DOMAIN resp.header
    /\ resp.header["Content-Type"] = "application/json"

IsGeneric500 ==
    /\ resp.status = 500
    /\ resp.body = InternalServerErrorBody
    /\ resp.header["Content-Type"] = "text/plain; charset=utf-8"
    /\ \E i \in 1..Len(log) : log[i].level = "ERROR"

\* The shape the by-ID route is specified to require: an object whose members
\* are arrays of objects.
StrictShape(v) ==
    /\ v.t = "obj"
    /\ \A k \in DOMAIN v.m :
          /\ v.m[k].t = "arr"
          /\ \A i \in 1..Len(v.m[k].a) : v.m[k].a[i].t = "obj"

TargetHasStrictShape ==
    /\ TargetIsFile
    /\ Unmarshal(TargetContent).ok
    /\ StrictShape(Unmarshal(TargetContent).val)

\* The collections of the target file, and those that hold records.
Collections == Unmarshal(TargetContent).val.m
NonEmptyKeys == {k \in DOMAIN Collections : Len(Collections[k].a) > 0}

\* The positions of the records of a collection whose id prints as id.
MatchesIn(records, id) ==
    {i \in 1..Len(records) : SprintfV(RecordID(records[i])) = id}

\* The collection the handler selected: the first key, in the order of the
\* iteration, whose array is not empty.
SelectedKey ==
    iter[CHOOSE i \in 1..Len(iter) :
            /\ iter[i] \in NonEmptyKeys
            /\ \A j \in 1..(i - 1) : iter[j] \notin NonEmptyKeys]

BodyIsEmptyObject ==
    /\ Unmarshal(resp.body).ok
    /\ Unmarshal(resp.body).val = EmptyObject

BodyIsRecord(record) ==
    /\ Unmarshal(resp.body).ok
    /\ Unmarshal(resp.body).val = record

(***************************************************************************)
(* The claims.                                                             *)
(***************************************************************************)

\* C1: when the file named by GET /{filename} holds syntactically valid JSON
\* (any value), the response is 200, application/json, and its body is the
\* content of the file byte for byte.
C1_RawPassThrough ==
    (AllRecordsRequest /\ TargetIsFile /\ Unmarshal(TargetContent).ok)
        => (IsJSONResponse /\ resp.body = TargetContent)

\* C1 witness: a file with white space, unsorted keys and a trailing newline
\* was served as it is.
C1_Witness ==
    /\ AllRecordsRequest
    /\ fs[FileA] = File(DocFormatted)
    /\ req.path = PathA
    /\ resp.status = 200
    /\ resp.body = DocFormatted

\* C2: on a file whose object has exactly one member with a non-empty array
\* of records, GET /{filename}/{id} answers with the first record, in array
\* order, whose id in string form is the requested id, with exactly the
\* members and values of that record.
C2_FirstMatchReturned ==
    (/\ ByIDRequest
     /\ TargetHasStrictShape
     /\ Cardinality(NonEmptyKeys) = 1
     /\ \E k \in NonEmptyKeys : MatchesIn(Collections[k].a, RequestedId) # {})
        => LET records == Collections[CHOOSE k \in NonEmptyKeys : TRUE].a
               first   == CHOOSE i \in MatchesIn(records, RequestedId) :
                              \A j \in MatchesIn(records, RequestedId) : i <= j
           IN  IsJSONResponse /\ BodyIsRecord(records[first])

\* C2 witness: two records carry the id 1 and the first of them was returned.
C2_Witness ==
    /\ ByIDRequest
    /\ fs[FileA] = File(DocDuplicateIds)
    /\ RequestedId = <<"1">>
    /\ Unmarshal(resp.body).ok
    /\ Unmarshal(resp.body).val.m[<<"n">>] = [t |-> "str", s |-> <<"x">>]

\* C3: on a file of the required shape, when no member holds a non-empty
\* array, or the selected collection holds no record whose id in string form
\* is the requested id, GET /{filename}/{id} answers 200 with {}.
C3_AbsenceIsEmptyObject ==
    (/\ ByIDRequest
     /\ TargetHasStrictShape
     /\ \/ NonEmptyKeys = {}
        \/ MatchesIn(Collections[SelectedKey].a, RequestedId) = {})
        => (IsJSONResponse /\ BodyIsEmptyObject)

\* C3 witness: id 3 was requested from the two records with ids 1 and 2.
C3_Witness ==
    /\ ByIDRequest
    /\ fs[FileA] = File(DocItems)
    /\ RequestedId = <<"3">>
    /\ resp.status = 200
    /\ resp.body = <<"{", "}", "\n">>

\* C4: GET /{filename}/{id} searches one member only, the first in iteration
\* order whose array is not empty: the answer is the first match of that
\* collection, or {} when it has none, whatever the other members hold.
C4_OneCollectionSearched ==
    (ByIDRequest /\ TargetHasStrictShape /\ NonEmptyKeys # {})
        => LET records == Collections[SelectedKey].a
               hits    == MatchesIn(records, RequestedId)
           IN  /\ IsJSONResponse
               /\ Len(records) > 0
               /\ IF hits = {} THEN BodyIsEmptyObject
                  ELSE BodyIsRecord(records[CHOOSE i \in hits : \A j \in hits : i <= j])

\* C4 witness: id 2 occurs in collection q only, p came first in the
\* iteration, and the answer was {}.
C4_Witness ==
    /\ ByIDRequest
    /\ fs[FileA] = File(DocTwoCollections)
    /\ RequestedId = <<"2">>
    /\ iter = << <<"p">>, <<"q">> >>
    /\ resp.body = <<"{", "}", "\n">>

\* C5 (as claimed): for every integer n, the record whose id is the JSON
\* number n and the record whose id is the JSON string of the decimal digits
\* of n are both returned when the decimal digits of n are requested.
C5_NumberAndStringIdsMatch ==
    \A n \in PowIds :
        (/\ ByIDRequest
         /\ TargetIsFile
         /\ TargetContent \in {DocNumId(n), DocStrId(n)}
         /\ RequestedId = NatToStr(n))
            => (/\ IsJSONResponse
                /\ BodyIsRecord(Unmarshal(TargetContent).val.m[<<"r">>].a[1]))

\* C6 (as claimed): GET /{filename}/{id} answers 500 for every file whose
\* content is valid JSON but not an object whose members are arrays of objects.
C6_ShapeEnforced ==
    (/\ ByIDRequest
     /\ TargetIsFile
     /\ Unmarshal(TargetContent).ok
     /\ ~StrictShape(Unmarshal(TargetContent).val))
        => IsGeneric500

\* C7: when the file exists and its content is not valid JSON (an empty file
\* included), GET /{filename} answers with the generic 500 of serverError and
\* nothing of the file is in the response.
C7_InvalidJSONIs500 ==
    (AllRecordsRequest /\ TargetIsFile /\ ~Unmarshal(TargetContent).ok)
        => (/\ IsGeneric500
            /\ log[Len(log)].msg = [kind |-> "invalid JSON", file |-> Base(TargetFile)])

\* C7 witness: the empty file was requested and refused.
C7_Witness ==
    /\ AllRecordsRequest
    /\ fs[FileA] = File(DocEmptyFile)
    /\ req.path = PathA
    /\ resp.status = 500

\* C8: when the normalized file does not exist in DataRoot, both record
\* routes answer 500 (not 404, not 200) and no JSON is parsed: the file is not
\* even read.
C8_MissingFileIs500 ==
    (/\ handler \in {"getFileRecords", "getFileRecordByID"}
     /\ req.method = "GET"
     /\ Lookup(fs, TargetFile).kind = "absent")
        => (/\ IsGeneric500
            /\ ops = <<[op |-> "stat", path |-> TargetFile]>>)

\* C8 witness: a record was requested by id from a file that does not exist.
C8_Witness ==
    /\ ByIDRequest
    /\ req.path = PathMissingOne
    /\ resp.status = 500
    /\ ops = <<[op |-> "stat", path |-> FileMissing]>>

\* C9: the ".json" normalization is idempotent and done before the file
\* system is touched: for a name X that does not end in ".json", the requests
\* for X and for X.json perform the same file-system operations and get the
\* same response on both record routes, and the only path a record request
\* touches is DataRoot/X.json (never X.json.json).
ExtensionlessNames == { <<"a">>, <<"b">>, <<"z", "z">>, <<"s", "u", "b">> }

GetRequest(path) == [method |-> "GET", path |-> path, query |-> <<>>]

C9_NormalizationIdempotent ==
    /\ \A x \in ExtensionlessNames :
          LET w  == commonHeaders(NewWriter)
              r1 == GetRequest(<<"/">> \o x)
              r2 == GetRequest(<<"/">> \o x \o DotJson)
              o1 == getFileRecords(fs, w, r1, routes("GET", r1.path).filename)
              o2 == getFileRecords(fs, w, r2, routes("GET", r2.path).filename)
          IN  /\ Finish(o1.w, "GET") = Finish(o2.w, "GET")
              /\ o1.ops = o2.ops
              /\ \A it \in Orders(FileDataKeys(fs, x)) :
                    LET b1 == getFileRecordByID(fs, w, r1, x, <<"1">>, it)
                        b2 == getFileRecordByID(fs, w, r2, x \o DotJson, <<"1">>, it)
                    IN  Finish(b1.w, "GET") = Finish(b2.w, "GET") /\ b1.ops = b2.ops
    /\ (handler \in {"getFileRecords", "getFileRecordByID"})
          => \A i \in 1..Len(ops) :
                ops[i].op \in {"stat", "read"} => ops[i].path = TargetFile

\* C9 witness: a.json was requested by its full name and a.json was read.
C9_Witness ==
    /\ AllRecordsRequest
    /\ req.path = PathAJson
    /\ resp.status = 200
    /\ ops[2] = [op |-> "read", path |-> FileA]

\* C10 (as claimed): a request that matches none of GET /, GET /{filename},
\* GET /{filename}/{id} reaches none of the three handlers and gets the
\* router's not-found response; home runs for the exact path / only.
MatchesATemplate(r) ==
    LET segs == Tail(Split(r.path, "/"))
    IN  /\ r.method = "GET"
        /\ \/ r.path = PathRoot
           \/ Len(segs) \in {1, 2} /\ \A i \in 1..Len(segs) : segs[i] # <<>>

C10_UnmatchedIsNotFound ==
    /\ (req # NoRequest /\ ~MatchesATemplate(req))
          => (/\ handler \notin {"home", "getFileRecords", "getFileRecordByID"}
              /\ resp.status = 404)
    /\ handler = "home" => req.path = PathRoot

(***************************************************************************)
(* Claims about the middleware and the error path, under FaultSpec.        *)
(***************************************************************************)

\* The six headers and their values.
SecurityHeaders ==
    ("Content-Security-Policy" :>
        "default-src 'self'; style-src 'self' fonts.googleapis.com; font-src fonts.gstatic.com")
    @@ ("Referrer-Policy" :> "origin-when-cross-origin")
    @@ ("X-Content-Type-Options" :> "nosniff")
    @@ ("X-Frame-Options" :> "deny")
    @@ ("X-XSS-Protection" :> "0")
    @@ ("Server" :> "Go")

HasSecurityHeaders ==
    \A k \in DOMAIN SecurityHeaders :
        k \in DOMAIN resp.header /\ resp.header[k] = SecurityHeaders[k]

\* The connection the request of the state was served over.
ConnOf(f) ==
    IF f = "connection breaking" THEN "breaking"
    ELSE IF f = "connection broken" THEN "broken"
    ELSE "open"

\* What the router and the route handler answer to the request of the state
\* on a writer no middleware has touched (status and headers do not depend
\* on the order of the directory entries).
InnerResponse ==
    Finish(mux(fs, [NewWriter EXCEPT !.conn = ConnOf(fault)], req,
               CHOOSE e \in Orders(Children(fs, DataRoot)) : TRUE, iter).w,
           req.method)

InnerPreserved ==
    /\ resp.status = InnerResponse.status
    /\ \A k \in DOMAIN InnerResponse.header :
           k \in DOMAIN resp.header /\ resp.header[k] = InnerResponse.header[k]

\* C11: every response of the handler routes() returns carries the six
\* security headers with their fixed values, whatever the outcome (200, 400,
\* the answers of the router, 500 from serverError, 500 from a recovered
\* handler panic), and the status and the headers the inner handler has set
\* are those of the response.
C11_SecurityHeadersOnEveryResponse ==
    resp # NoResponse =>
        /\ HasSecurityHeaders
        /\ fault # "panic on entry" => InnerPreserved

\* C11 witness: a handler panicked, the panic was recovered and answered 500,
\* and the six headers are on that response.
C11_Witness ==
    /\ fault = "panic on entry"
    /\ resp.status = 500
    /\ HasSecurityHeaders

\* The last log entry is the one serverError writes for the recovered panic.
PanicLogged ==
    /\ log # <<>>
    /\ log[Len(log)] = [level |-> "ERROR", msg |-> [kind |-> "panic", value |-> "fault"],
                        method |-> req.method, uri |-> RequestURI(req), trace |-> TRUE]

ConnectionClose == "Connection" \in DOMAIN resp.header /\ resp.header["Connection"] = "close"

Answers(fsys, r, f, it) ==
    { Finish(ServeHTTP(fsys, r, f, e, it).w, r.method) :
        e \in (IF routes(r.method, r.path).handler = "home"
               THEN Orders(Children(fsys, DataRoot)) ELSE {<<>>}) }

ErrorEntries == {i \in 1..Len(log) : log[i].level = "ERROR"}

\* C13: every error of the request phase (directory read error, file not
\* found, file read error, invalid JSON, encoding error, recovered panic) is
\* answered with status 500 and a body that is the generic text only, while
\* the error, the method, the request URI with its query string and a trace
\* go to the log at error level.
C13_ErrorsAreGeneric500 ==
    ErrorEntries # {} =>
        /\ resp.status = 500
        /\ req.method # "HEAD" => resp.body = InternalServerErrorBody
        /\ \A i \in ErrorEntries :
               /\ log[i].method = req.method
               /\ log[i].uri = RequestURI(req)
               /\ log[i].trace

(***************************************************************************)
(* Claims about the directory listing, under FaultSpec.                    *)
(***************************************************************************)

Range(s) == {s[i] : i \in 1..Len(s)}

\* The directories of a file system that can be listed.
ListableDirs(fsys) ==
    {p \in DOMAIN fsys \cup {<<"/">>} : Stat(fsys, p) = "ok" /\ Lookup(fsys, p).kind = "dir"}

\* The names of the immediate entries of D that are not directories.
NonDirNames(fsys, D) == {Base(p) : p \in {q \in Children(fsys, D) : ~IsDir(fsys[q])}}

KeyStatus == <<"s", "t", "a", "t", "u", "s">>
KeyFiles == <<"f", "i", "l", "e", "s">>
KeyCount == <<"c", "o", "u", "n", "t">>

\* The request of the state was answered by home with a complete response.
ListingServed ==
    /\ handler = "home"
    /\ req.method = "GET"
    /\ fault = "none"
    /\ resp.status = 200

\* The names in the files member of the body, when it is an array.
ListedNames ==
    LET files == Unmarshal(resp.body).val.m[KeyFiles]
    IN  IF files.t = "arr" THEN {files.a[i].s : i \in 1..Len(files.a)} ELSE {}

\* C14: for every directory D that exists and can be read, and whatever the
\* order in which the directory returns its entries, ListFilesInDirectory(D)
\* returns exactly the names of the immediate entries of D that are not
\* directories, each once: no subdirectory, no nested file, no name filtered
\* out; the listing route serves these names for DataRoot.
C14_ListsImmediateFilesOnly ==
    /\ \A D \in ListableDirs(fs) :
           \A e \in Orders(Children(fs, D)) :
               LET ls == ListFilesInDirectory(fs, D, e)
               IN  /\ ls.ok
                   /\ Range(ls.files) = NonDirNames(fs, D)
                   /\ Len(ls.files) = Cardinality(NonDirNames(fs, D))
    /\ ListingServed => ListedNames = NonDirNames(fs, DataRoot)

\* C14 witness: the directory with a dotfile, a name with a space, a name
\* that is not ASCII and a subdirectory holding a file was listed.
C14_Witness ==
    /\ ListingServed
    /\ fs = DirectoryRich
    /\ ListedNames = {Base(FileHidden), Base(FileSpaced), Base(FileAccent)}

\* C15: a successful GET / response is a JSON object with status "success",
\* files a JSON array of the listed names and count the length of files, for
\* every content of DataRoot, an empty one included (files is then the empty
\* array and count is 0).
C15_ListingIsArrayWithCount ==
    ListingServed =>
        LET v == Unmarshal(resp.body)
        IN  /\ v.ok
            /\ v.val.t = "obj"
            /\ DOMAIN v.val.m = {KeyStatus, KeyFiles, KeyCount}
            /\ v.val.m[KeyStatus] = [t |-> "str", s |-> <<"s", "u", "c", "c", "e", "s", "s">>]
            /\ v.val.m[KeyFiles].t = "arr"
            /\ ListedNames = NonDirNames(fs, DataRoot)
            /\ v.val.m[KeyCount] = [t |-> "num", neg |-> FALSE, mag |-> Len(v.val.m[KeyFiles].a)]

\* The paths ListFilesInDirectory is tried on: those the file system holds,
\* the data directory, a path that does not exist and one below a file.
ProbePaths == DOMAIN fs \cup {DataRoot, PathMissing, FilepathJoin(FileOutside, <<"n">>)}

\* C16: ListFilesInDirectory returns an error and no list when the path does
\* not exist, is not a directory, or cannot be opened or read; the listing
\* route then answers the generic 500, not a success with an empty list.
C16_ListingErrors ==
    /\ \A p \in ProbePaths \ ListableDirs(fs) :
           LET ls == ListFilesInDirectory(fs, p, <<>>)
           IN  ~ls.ok /\ "files" \notin DOMAIN ls
    /\ (handler = "home" /\ req.method = "GET" /\ fault = "none"
        /\ DataRoot \notin ListableDirs(fs))
           => (IsGeneric500 /\ ops = <<[op |-> "readdir"]>>)

\* C16 witness: the listing was requested while the data path was a regular
\* file, and answered 500.
C16_Witness ==
    /\ handler = "home"
    /\ fault = "none"
    /\ Lookup(fs, DataRoot).kind = "file"
    /\ resp.status = 500

\* C20: the service is read-only: whatever request is served (listing,
\* all-records, by-ID, unmatched, failing or panicking), the file system is
\* afterwards what it was before, and the data path of the process is the one
\* getDataPath resolved at startup.
C20_ReadOnly ==
    /\ [][req' # NoRequest => fs' = fs /\ proc' = proc]_vars
    /\ [](/\ proc.dataPath = DataRoot
          /\ proc.dataPath =
                 getDataPath(DirectoryWith(File(DocItems)), proc.env, proc.cwd, proc.args[2]).path)

\* C20 witness: a record request was served from a.json, the handler
\* panicked at its end, and a.json is what it was.
C20_Witness ==
    /\ fault = "panic on exit"
    /\ handler = "getFileRecordByID"
    /\ ops = <<[op |-> "stat", path |-> FileB], [op |-> "read", path |-> FileB], UnmarshalOp>>
    /\ Lookup(fs, FileB) = File(DocItems)

(***************************************************************************)
(* Claims about startup, under StartupSpec.                                *)
(***************************************************************************)

\* The GETTER_PORT the file .env of the working directory supplies, the
\* empty string when it supplies none.
EnvFileValue(fsys, cwd) ==
    LET ld == Load(fsys, <<>>, cwd)
    IN  IF ld.ok THEN Getenv(ld.env, KeyGetterPort) ELSE <<>>

PathArgument == proc.args[2]

Expanded == ExpandAbsolutePath(proc.env, proc.cwd, PathArgument)

LeadingTilde(p) == p # <<>> /\ p[1] = "~"

\* C18: ExpandAbsolutePath replaces a leading ~ by the home directory and
\* returns an absolute path; an absolute path is returned cleaned, a relative
\* one is resolved against the working directory; it fails only when the
\* home or the working directory cannot be determined, never because the
\* path does not exist: that is found by the caller, which reports it.
C18_ExpandAbsolutePath ==
    Len(proc.args) = 2 =>
        /\ Expanded.ok => IsAbs(Expanded.path) /\ Clean(Expanded.path) = Expanded.path
        /\ (LeadingTilde(PathArgument) /\ Getenv(proc.env, KeyHome) # <<>>) =>
               /\ Expanded.ok
               /\ Expanded.path = Clean(Getenv(proc.env, KeyHome) \o <<"/">> \o Tail(PathArgument))
        /\ IsAbs(PathArgument) => Expanded.ok /\ Expanded.path = Clean(PathArgument)
        /\ (~IsAbs(PathArgument) /\ ~LeadingTilde(PathArgument) /\ proc.cwd # NoCwd) =>
               Expanded.ok /\ Expanded.path = Clean(proc.cwd \o <<"/">> \o PathArgument)
        /\ ~Expanded.ok =>
               \/ LeadingTilde(PathArgument) /\ Getenv(proc.env, KeyHome) = <<>>
               \/ ~IsAbs(PathArgument) /\ ~LeadingTilde(PathArgument) /\ proc.cwd = NoCwd
        /\ proc.phase = "listening" => proc.dataPath = Expanded.path
        /\ (proc.phase = "exited" /\ proc.addr = <<>> /\ Expanded.ok) =>
               /\ proc.out = NotADirectory
               /\ ~FolderExists(fs, Expanded.path)

\* C18 witness: ~/zz was expanded to /h/zz, which does not exist; main
\* reported that and exited.
C18_Witness ==
    /\ proc.phase = "exited"
    /\ Len(proc.args) = 2
    /\ PathArgument = <<"~", "/", "z", "z">>
    /\ Expanded.ok
    /\ Expanded.path = <<"/", "h", "/", "z", "z">>
    /\ proc.out = NotADirectory

\* What getDataPath returns for the path argument.
Resolved == getDataPath(fs, proc.env, proc.cwd, PathArgument)

\* C19: the listener is started only when there is exactly one argument and
\* getDataPath has resolved it to an existing directory; with a missing or
\* extra argument, a path that fails resolution, does not exist or is a
\* regular file, the process exits with code 1 and never listens.
\* getDataPath returns an error and an empty path in those cases and the
\* expanded absolute path otherwise.
C19_StartupGated ==
    /\ [](proc.phase = "listening" =>
            /\ Len(proc.args) = 2
            /\ Resolved.ok
            /\ proc.dataPath = Resolved.path
            /\ FolderExists(fs, proc.dataPath))
    /\ [](proc.phase # "start" /\ (Len(proc.args) # 2 \/ ~Resolved.ok) =>
            proc.phase = "exited" /\ proc.code = 1 /\ proc.addr = <<>>)
    /\ [](Len(proc.args) = 2 =>
            /\ ~Resolved.ok => Resolved.path = <<>> /\ Resolved.err # ""
            /\ Resolved.ok <=> (Expanded.ok /\ FolderExists(fs, Expanded.path))
            /\ Resolved.ok => Resolved.path = Expanded.path)
    /\ [][/\ proc'.phase = "listening" => proc.phase = "start"
          /\ proc.phase = "exited" => proc'.phase = "exited"]_vars

\* C19 witness: the argument was a regular file; the process has exited with
\* code 1 without listening.
C19_Witness ==
    /\ proc.phase = "exited"
    /\ proc.code = 1
    /\ proc.addr = <<>>
    /\ Len(proc.args) = 2
    /\ Lookup(fs, PathArgument).kind = "file"

(***************************************************************************)
(* Claims about the responses of the three route handlers.                 *)
(***************************************************************************)

SuccessContentType ==
    "Content-Type" \in DOMAIN resp.header /\ resp.header["Content-Type"] = "application/json"

\* C23: the response of home, getFileRecords and getFileRecordByID is either
\* the complete success response or the generic 500 of serverError, never
\* both: when an upstream error or an encoding or write failure occurs,
\* serverError is invoked and neither a part of a success body nor the
\* success Content-Type has been written; otherwise the response is the
\* complete one.
C23_SuccessOrGenericError ==
    (handler \in RouteHandlers /\ req.method = "GET" /\ fault \notin Panics) =>
        /\ fault \in ConnectionFaults => ErrorEntries # {}
        /\ ErrorEntries # {} => (IsGeneric500 /\ ~SuccessContentType)
        /\ ErrorEntries = {} => resp \in Answers(fs, req, "none", iter)

(***************************************************************************)
(* Claims about the paths and the records of the record routes.            *)
(***************************************************************************)

\* The paths the request of the state passed to os.Stat and os.ReadFile.
PathsAccessed == {ops[i].path : i \in {j \in 1..Len(ops) : ops[j].op \in {"stat", "read"}}}

\* C26: every path the record routes pass to the file system names a file
\* directly inside DataRoot, whatever the filename segment is after URL
\* decoding ("..", or a value with an encoded path separator such as
\* "..%2fx"): the path is DataRoot joined with a single file name.
C26_ReadsStayInsideDataRoot ==
    handler \in {"getFileRecords", "getFileRecordByID"} =>
        \A p \in PathsAccessed :
            /\ Parent(p) = DataRoot
            /\ p = FilepathJoin(DataRoot, Base(p))

\* The decoded target file of a by-ID request, and its keys whose slice holds
\* at least one record.
TargetFileData == UnmarshalFileData(TargetContent)

TargetAccepted == TargetIsFile /\ TargetFileData.ok

RecordKeys == {k \in DOMAIN TargetFileData.val : Len(TargetFileData.val[k]) > 0}

\* The same by-ID request is answered again over the same file system.
SameByIDRequestAgain ==
    /\ ByIDRequest
    /\ handler' = handler
    /\ req' = req
    /\ fs' = fs

\* C28 as stated: two GET /{filename}/{id} requests with the same filename
\* and id over the same file content get the same response body, for every
\* accepted file, those with several non-empty arrays included.
C28_ByIDDeterministic ==
    [][SameByIDRequestAgain => resp'.body = resp.body]_vars

\* C28, amended: the two requests get the same response when the file is not
\* accepted or at most one of its members holds a non-empty array; when
\* several do, each response is the answer for one of those members: the
\* first record of it whose id matches, or {}.
C28_DeterministicForOneCollection ==
    /\ [][(SameByIDRequestAgain /\ (TargetAccepted => Cardinality(RecordKeys) <= 1))
              => resp' = resp]_vars
    /\ []((ByIDRequest /\ TargetAccepted /\ Cardinality(RecordKeys) > 1) =>
              /\ IsJSONResponse
              /\ \E k \in RecordKeys :
                     resp.body = Encode(MatchedRecord(TargetFileData.val[k], RequestedId)))

\* C28 witness: {"e":[],"r":[{"id":"1","v":true}]} was iterated r first and
\* the record 1 of r was returned.
C28_Witness ==
    /\ ByIDRequest
    /\ fs[FileA] = File(DocEmptyThenRecords)
    /\ RequestedId = <<"1">>
    /\ iter = << <<"r">>, <<"e">> >>
    /\ BodyIsRecord(TargetFileData.val[<<"r">>][1])

\* The records of the accepted target file that carry an id member whose
\* value is a string or a number printing as the requested id.
RecordsWithRequestedId ==
    {rec \in UNION {Range(TargetFileData.val[k]) : k \in RecordKeys} :
        /\ rec.t = "obj"
        /\ IdKey \in DOMAIN rec.m
        /\ rec.m[IdKey].t \in {"str", "num"}
        /\ SprintfV(rec.m[IdKey]) = RequestedId}

\* C29: GET /{filename}/{id} returns a non-empty record only if that record
\* carries an id member whose value is a string or a number equal, in string
\* form, to the requested id; a record without id, with a null id, or a null
\* element is returned for no requested id.
C29_MatchCarriesId ==
    (ByIDRequest /\ IsJSONResponse /\ ~BodyIsEmptyObject) =>
        \E rec \in RecordsWithRequestedId : BodyIsRecord(rec)

(***************************************************************************)
(* Claims about requests that follow a change of the data directory.       *)
(***************************************************************************)

\* What os.ReadFile returns now for the file a record request names.
TargetRead == ReadFile(fs, TargetFile)

\* The answers of the by-ID route over the content c for the id: the answer
\* for one of the members that hold records, {} when none does.
RecordAnswers(c, id) ==
    LET fd   == UnmarshalFileData(c).val
        keys == {k \in DOMAIN fd : Len(fd[k]) > 0}
    IN  IF keys = {} THEN {Encode(EmptyObject)}
        ELSE {Encode(MatchedRecord(fd[k], id)) : k \in keys}

ByIDAnswers(c) == RecordAnswers(c, RequestedId)

\* C24: nothing is cached between requests: whatever other processes have
\* done to the data directory since startup (a file or the directory
\* created, changed or deleted), a request is answered from the file system
\* as it is now: the listing holds the names of the files there are, the
\* record routes serve the content the file has, and a file or directory
\* that is gone gives the generic 500.
C24_AnsweredFromCurrentFiles ==
    (req.method = "GET" /\ fault = "none") =>
        /\ handler = "home" =>
               IF DataRoot \in ListableDirs(fs)
               THEN IsJSONResponse /\ ListedNames = NonDirNames(fs, DataRoot)
               ELSE IsGeneric500
        /\ handler = "getFileRecords" =>
               IF TargetRead.ok /\ Unmarshal(TargetRead.content).ok
               THEN IsJSONResponse /\ resp.body = TargetRead.content
               ELSE IsGeneric500
        /\ handler = "getFileRecordByID" =>
               IF TargetRead.ok /\ UnmarshalFileData(TargetRead.content).ok
               THEN IsJSONResponse /\ resp.body \in ByIDAnswers(TargetRead.content)
               ELSE IsGeneric500

\* C24 witness: a.json was replaced after startup and GET /a served the new
\* content, which is not what the server would have read at startup.
C24_Witness ==
    /\ handler = "getFileRecords"
    /\ req.method = "GET"
    /\ fault = "none"
    /\ Lookup(fs, FileA) = File(DocTwoCollections)
    /\ Lookup(fs, FileA) # Lookup(DirectoryWith(File(DocItems)), FileA)
    /\ resp.status = 200
    /\ resp.body = DocTwoCollections

(***************************************************************************)
(* Claims about the order of the steps of a request, under StepSpec and    *)
(* ConcurrentSpec.                                                         *)
(***************************************************************************)

Slots == 1..MaxInFlight

\* The positions of the "received request" entries in what g has logged.
Received(g) == {k \in 1..Len(g.log) : g.log[k].level = "INFO"}

HeadersSet(h) ==
    \A k \in DOMAIN SecurityHeaders : k \in DOMAIN h /\ h[k] = SecurityHeaders[k]

\* C21: a request passes recoverPanic, then logRequest, then commonHeaders,
\* then the router and the handler: the "received request" entry is written
\* once, after the deferred recovery is in place and before any file access
\* of the handler; the security headers are set after it and before the
\* handler is entered or writes anything; and a panic raised in any of the
\* other three is recovered by recoverPanic.
C21_WrappersRunInOrder ==
    \A i \in Slots :
        LET g == flight[i]
        IN  g.via = "routes" =>
                /\ Cardinality(Received(g)) <= 1
                /\ g.log # <<>> => g.deferred
                /\ HeadersSet(g.w.header) => Received(g) = {1}
                /\ g.ops # <<>> => Received(g) = {1}
                /\ g.h # "" => (g.deferred /\ Received(g) = {1} /\ HeadersSet(g.w.header))
                /\ g.pc = "handler" => (g.w.status = 0 /\ g.w.body = <<>>)
                /\ (g.h # "" /\ g.w.status # 0) => HeadersSet(g.w.sent)
                /\ (g.pc = "done" /\ ~g.panicked) => Received(g) = {1}
                /\ g.pc # "aborted"
                /\ g.panicked =>
                       /\ g.pc = "done"
                       /\ g.w.status = 500
                       /\ g.log[Len(g.log)].level = "ERROR"

\* C21 witness: getFileRecords panicked after it had stat'ed and read the
\* file; the panic was recovered, behind the log entry and the headers.
C21_Witness ==
    \E i \in Slots :
        /\ flight[i].via = "routes"
        /\ flight[i].h = "getFileRecords"
        /\ flight[i].panicked
        /\ Len(flight[i].ops) = 2
        /\ Received(flight[i]) = {1}
        /\ HeadersSet(flight[i].w.sent)

\* C22: when the filename path value is empty (both record handlers) or the
\* id path value is empty (by-ID handler), the handler answers 400 with its
\* message and returns without any access to the file system: no stat, no
\* read, no decoding.
C22_MissingPathValueIs400 ==
    \A i \in Slots :
        LET g == flight[i]
        IN  (/\ g.h \in {"getFileRecords", "getFileRecordByID"}
             /\ g.filename = <<>> \/ (g.h = "getFileRecordByID" /\ g.id = <<>>)) =>
                /\ g.pc \in {"handler", "done"}
                /\ g.ops = <<>>
                /\ g.content = <<>>
                /\ g.pc = "done" =>
                       /\ g.w.status = 400
                       /\ g.w.body = (IF g.filename = <<>> THEN MissingFileName
                                      ELSE MissingRecordID) \o <<"\n">>
                       /\ g.log = <<>>

\* C22 witness: the by-ID handler was called with a filename and no id and
\* has answered 400 "Missing record ID".
C22_Witness ==
    \E i \in Slots :
        /\ flight[i].h = "getFileRecordByID"
        /\ flight[i].filename = <<"a">>
        /\ flight[i].id = <<>>
        /\ flight[i].pc = "done"
        /\ flight[i].w.status = 400
        /\ flight[i].w.body = MissingRecordID \o <<"\n">>
        /\ flight[i].ops = <<>>

\* C25: requests in flight at the same time do not interfere: over a data
\* directory that does not change, and however the steps of the requests
\* interleave, the status, headers and body of each response are what the
\* handler of routes() answers to that request alone.
C25_NoInterference ==
    \A i \in Slots :
        flight[i].pc = "done" =>
            Finish(flight[i].w, flight[i].r.method)
                \in Answers(fs, flight[i].r, "none", flight[i].it)

\* C25 witness: GET /a was answered with the content of a.json while a
\* request for b.json had read its file and not yet answered.
C25_Witness ==
    \E i, j \in Slots :
        /\ i # j
        /\ flight[i].pc = "done"
        /\ flight[i].r.path = PathA
        /\ flight[i].w.status = 200
        /\ flight[i].w.body = DocTwoCollections
        /\ flight[j].pc = "respond"
        /\ flight[j].r.path = PathB
        /\ flight[j].content = DocItems

Reads(g) == {k \in 1..Len(g.ops) : g.ops[k].op = "read"}

\* C27: a record request reads the file once and serves what it validated:
\* whatever other processes do to the file during the request, between the
\* stat and the read included, the request ends in a 500 or in a 200 made
\* from the bytes of the one read, which are the content the file had at
\* that moment and which passed the validation; all-records serves exactly
\* these bytes.
C27_ServesWhatItValidated ==
    /\ [](\A i \in Slots :
            LET g == flight[i]
            IN  (/\ g.via = "routes"
                 /\ g.h \in {"getFileRecords", "getFileRecordByID"}
                 /\ g.pc = "done"
                 /\ ~g.panicked) =>
                    /\ g.w.status \in {200, 500}
                    /\ Cardinality(Reads(g)) <= 1
                    /\ g.w.status = 500 => g.w.body = InternalServerErrorBody
                    /\ g.w.status = 200 =>
                           /\ Cardinality(Reads(g)) = 1
                           /\ g.h = "getFileRecords" =>
                                  Unmarshal(g.content).ok /\ g.w.body = g.content
                           /\ g.h = "getFileRecordByID" =>
                                  /\ UnmarshalFileData(g.content).ok
                                  /\ g.w.body \in RecordAnswers(g.content, g.id))
    /\ [][\A i \in Slots :
            /\ (flight[i].pc = "read" /\ flight'[i].pc = "respond") =>
                   File(flight'[i].content) = Lookup(fs, flight'[i].path)
            /\ flight[i].pc = "respond" => flight'[i].content = flight[i].content]_vars

\* C27 witness: a.json was deleted between the stat and the read of
\* GET /a: the stat had found it, the read failed, the answer is 500.
C27_Witness ==
    \E i \in Slots :
        /\ flight[i].h = "getFileRecords"
        /\ flight[i].pc = "done"
        /\ flight[i].ops = <<[op |-> "stat", path |-> FileA], [op |-> "read", path |-> FileA]>>
        /\ flight[i].log[Len(flight[i].log)].msg = [kind |-> "no such file or directory"]
        /\ flight[i].w.status = 500

=============================================================================
